---- MODULE Spec2Model ----
(***************************************************************************)
(* Model of the dependabot-drupal-mrn GitHub Action (src/index.js):        *)
(* fetchProjectTags, mapVersionToTag and the orchestrating run().          *)
(*                                                                         *)
(* Strings are sequences of atoms.  An atom is either one character        *)
(* ("#", " ", ",", ".", a digit, ...) or an indivisible word that no       *)
(* operation of the program looks inside.  Concatenation is \o, and        *)
(* includes / startsWith / split / trim / replace / match are computed on  *)
(* the atoms the way the JavaScript built-ins compute them on characters.  *)
(* The atom " -> " stands for the text ' U+2192 ' of the source.           *)
(***************************************************************************)
EXTENDS Integers, Sequences, FiniteSets, TLC

VARIABLES
    env,        \* process.env: GITHUB_TOKEN, DEPENDENCY_NAMES, PREVIOUS_VERSION, NEW_VERSION
    payload,    \* github.context.payload.pull_request
    prBody0,    \* the PR description before the first run
    prBody,     \* the PR description held by the pull-request host
    prWrites,   \* bodies the host has accepted through pulls.update, in order
    pc,         \* per run: the await run() is suspended at
    loc,        \* per run: the local variables of run()
    obs,        \* per run: calls issued, answers received, signals raised (fetch, octokit, core.*)
    call        \* harness for the pure functions: function, arguments, result

vars == <<env, payload, prBody0, prBody, prWrites, pc, loc, obs, call>>

(***************************************************************************)
(* Bounds                                                                  *)
(***************************************************************************)
MaxRuns == 2
MaxVerLen == 5
MaxTags == 2
MaxSeqPackages == 1
\* Longest comma-separated list in the environment of SpecFilter
MaxList == 2
\* Most groups in a changelog answer of SpecRender
MaxGroups == 2

Runs == 1..MaxRuns

(***************************************************************************)
(* Strings                                                                 *)
(***************************************************************************)
Digits == {"0", "1", "2", "3", "4", "5", "6", "7", "8", "9"}
WhiteSpace == {" ", "\n", "\t"}

\* An optional string: undefined / null, or a string value.
Undef == [def |-> FALSE, s |-> <<>>]
Str(s) == [def |-> TRUE, s |-> s]

\* JavaScript truthiness of an optional string.
Truthy(o) == o.def /\ o.s # <<>>

\* `o || ''`
OrEmpty(o) == IF Truthy(o) THEN o.s ELSE <<>>

\* String.prototype.includes
Includes(s, sub) ==
    \E i \in 1..(Len(s) - Len(sub) + 1) : SubSeq(s, i, i + Len(sub) - 1) = sub

\* String.prototype.startsWith
StartsWith(s, p) == Len(s) >= Len(p) /\ SubSeq(s, 1, Len(p)) = p

\* Array.prototype.includes on an array of strings
ArrIncludes(arr, x) == \E i \in 1..Len(arr) : arr[i] = x

\* String.prototype.trim
Trim(s) ==
    LET keep == {i \in 1..Len(s) : s[i] \notin WhiteSpace}
    IN  IF keep = {} THEN <<>>
        ELSE LET lo == CHOOSE i \in keep : \A j \in keep : i <= j
                 hi == CHOOSE i \in keep : \A j \in keep : i >= j
             IN  SubSeq(s, lo, hi)

\* String.prototype.split on a one-character separator
RECURSIVE Split(_, _)
Split(s, sep) ==
    IF \A i \in 1..Len(s) : s[i] # sep THEN <<s>>
    ELSE LET k == CHOOSE i \in 1..Len(s) : s[i] = sep /\ \A j \in 1..(i - 1) : s[j] # sep
         IN  <<SubSeq(s, 1, k - 1)>> \o Split(SubSeq(s, k + 1, Len(s)), sep)

\* String.prototype.replace(pat, rep) with a string pattern: first occurrence only
ReplaceFirst(s, pat, rep) ==
    IF ~Includes(s, pat) THEN s
    ELSE LET k == CHOOSE i \in 1..(Len(s) - Len(pat) + 1) :
                      /\ SubSeq(s, i, i + Len(pat) - 1) = pat
                      /\ \A j \in 1..(i - 1) : SubSeq(s, j, j + Len(pat) - 1) # pat
         IN  SubSeq(s, 1, k - 1) \o rep \o SubSeq(s, k + Len(pat), Len(s))

\* All strings over an alphabet up to a length
RECURSIVE StringsUpTo(_, _)
StringsUpTo(alphabet, n) ==
    IF n = 0 THEN {<<>>}
    ELSE LET shorter == StringsUpTo(alphabet, n - 1)
         IN  shorter \cup {Append(s, a) : s \in shorter, a \in alphabet}

\* All sequences over a set up to a length
RECURSIVE SeqsUpTo(_, _)
SeqsUpTo(S, n) ==
    IF n = 0 THEN {<<>>}
    ELSE LET shorter == SeqsUpTo(S, n - 1)
         IN  shorter \cup {Append(s, a) : s \in shorter, a \in S}

(***************************************************************************)
(* mapVersionToTag (src/index.js:31-52)                                    *)
(***************************************************************************)
\* Faulty variant: /^([^.]+)\.([^.]+)\.([^.]+)$/, the parts need not be digits
SemverMatchAnyPart(version) ==
    LET parts == Split(version, ".")
        ok == Len(parts) = 3 /\ \A i \in 1..3 : parts[i] # <<>>
    IN  IF ok THEN [matched |-> TRUE, major |-> parts[1], minor |-> parts[2]]
        ELSE [matched |-> FALSE, major |-> <<>>, minor |-> <<>>]

\* version.match(/^(\d+)\.(\d+)\.(\d+)$/): the groups, or no match
SemverMatch(version) ==
    LET parts == Split(version, ".")
        ok == /\ Len(parts) = 3
              /\ \A i \in 1..3 : /\ parts[i] # <<>>
                                 /\ \A j \in 1..Len(parts[i]) : parts[i][j] \in Digits
    IN  IF ok THEN [matched |-> TRUE, major |-> parts[1], minor |-> parts[2]]
        ELSE [matched |-> FALSE, major |-> <<>>, minor |-> <<>>]

\* `8.x-${major}.${minor}`
LegacyTag(major, minor) == <<"8", ".", "x", "-">> \o major \o <<".">> \o minor

\* Faulty variant: the legacy tag is taken without looking it up in the tags
MapSemverUnchecked(version, tags, semverMatch) ==
    IF semverMatch.matched
    THEN LegacyTag(semverMatch.major, semverMatch.minor)
    ELSE version

\* Lines 41-51: the outcome of the pattern match decides
MapSemver(version, tags, semverMatch) ==
    IF /\ semverMatch.matched
       /\ ArrIncludes(tags, LegacyTag(semverMatch.major, semverMatch.minor))
    THEN LegacyTag(semverMatch.major, semverMatch.minor)
    ELSE version

\* Faulty variant: the legacy tag is tried before the verbatim match
mapVersionToTagLegacyFirst(version, tags) ==
    MapSemver(version, tags, SemverMatch(version))

mapVersionToTag(version, tags) ==
    IF ArrIncludes(tags, version) THEN version
    ELSE MapSemver(version, tags, SemverMatch(version))

(***************************************************************************)
(* HTTP responses handed back by the global fetch                          *)
(***************************************************************************)
\* A JSON body: null, or an object with any of the fields the program reads.
JsonNull ==
    [isNull |-> TRUE, hasTags |-> FALSE, tags |-> <<>>, hasChanges |-> FALSE,
     changes |-> <<>>, hasChangeRecords |-> FALSE, changeRecords |-> <<>>]
EmptyObject == [JsonNull EXCEPT !.isNull = FALSE]
TagsBody(tagObjs) == [EmptyObject EXCEPT !.hasTags = TRUE, !.tags = tagObjs]
ChangesBody(groups) == [EmptyObject EXCEPT !.hasChanges = TRUE, !.changes = groups]
WithChangeRecords(body, records) ==
    [body EXCEPT !.hasChangeRecords = TRUE, !.changeRecords = records]

\* fetch() rejected with an Error carrying `message`
Rejected(message) ==
    [kind |-> "reject", ok |-> FALSE, status |-> "", jsonThrows |-> FALSE,
     message |-> message, data |-> JsonNull]

\* fetch() resolved with a non-2xx response
HttpError(status) ==
    [kind |-> "http", ok |-> FALSE, status |-> status, jsonThrows |-> FALSE,
     message |-> <<>>, data |-> JsonNull]

\* fetch() resolved with a 2xx response whose json() rejects
BadJson(message) ==
    [kind |-> "http", ok |-> TRUE, status |-> "200", jsonThrows |-> TRUE,
     message |-> message, data |-> JsonNull]

\* fetch() resolved with a 2xx response whose json() resolves with `data`
Ok(data) ==
    [kind |-> "http", ok |-> TRUE, status |-> "200", jsonThrows |-> FALSE,
     message |-> <<>>, data |-> data]

\* The message of the TypeError raised by reading a property of null
NullPropertyError == <<"Cannot read properties of null">>

(***************************************************************************)
(* fetchProjectTags (src/index.js:9-22)                                    *)
(***************************************************************************)
TagsUrl(project) == <<"https://api.drupal-mrn.dev/project?project=">> \o project

\* `tags.map(tag => tag.name)`
TagNames(tags) == [i \in 1..Len(tags) |-> tags[i].name]

\* Faulty variant: the names are collected in reverse order
FetchProjectTagsTryReversed(project, response) ==
    IF response.kind = "reject" \/ (response.ok /\ response.jsonThrows)
    THEN [threw |-> TRUE, message |-> response.message, ret |-> <<>>, warned |-> <<>>]
    ELSE IF ~response.ok
    THEN [threw |-> FALSE, message |-> <<>>, ret |-> <<>>,
          warned |-> <<<<"Failed to fetch project tags for ">> \o project
                         \o <<": ", response.status>>>>]
    ELSE IF response.data.isNull
    THEN [threw |-> TRUE, message |-> NullPropertyError, ret |-> <<>>, warned |-> <<>>]
    ELSE [threw |-> FALSE, message |-> <<>>, warned |-> <<>>,
          ret |-> IF response.data.hasTags
                  THEN [i \in 1..Len(response.data.tags) |->
                           response.data.tags[Len(response.data.tags) + 1 - i].name]
                  ELSE <<>>]

\* The outcome of the body of the try block: a value, or a thrown error.
FetchProjectTagsTry(project, response) ==
    IF response.kind = "reject"
    THEN [threw |-> TRUE, message |-> response.message, ret |-> <<>>, warned |-> <<>>]
    ELSE IF ~response.ok
    THEN [threw |-> FALSE, message |-> <<>>, ret |-> <<>>,
          warned |-> <<<<"Failed to fetch project tags for ">> \o project
                         \o <<": ", response.status>>>>]
    ELSE IF response.jsonThrows
    THEN [threw |-> TRUE, message |-> response.message, ret |-> <<>>, warned |-> <<>>]
    ELSE IF response.data.isNull
    THEN [threw |-> TRUE, message |-> NullPropertyError, ret |-> <<>>, warned |-> <<>>]
    ELSE [threw |-> FALSE, message |-> <<>>, warned |-> <<>>,
          ret |-> IF response.data.hasTags THEN TagNames(response.data.tags)
                  ELSE <<>>]

\* The catch block of lines 18-21 applied to the outcome t of the try block
CatchTagError(project, t) ==
    IF t.threw
    THEN [threw |-> FALSE, message |-> <<>>, ret |-> <<>>,
          warned |-> <<<<"Error fetching project tags for ">> \o project
                         \o <<": ">> \o t.message>>]
    ELSE t

\* Faulty variant: `await response.json()` and the mapping sit outside the try block
fetchProjectTagsNoCatch(project, response) ==
    IF response.kind = "reject"
    THEN CatchTagError(project, FetchProjectTagsTry(project, response))
    ELSE FetchProjectTagsTry(project, response)

\* The whole function: what the caller observes.
fetchProjectTags(project, response) ==
    CatchTagError(project, FetchProjectTagsTry(project, response))

(***************************************************************************)
(* run(): parsing of the environment (src/index.js:56-81)                  *)
(***************************************************************************)
\* `x.split(',').map(p => p.trim())`
SplitTrim(s) ==
    LET parts == Split(s, ",")
    IN  [i \in 1..Len(parts) |-> Trim(parts[i])]

DrupalPrefix == <<"drupal/">>

\* Faulty variant: `versions[i]` alone, which is undefined past the end
VersionAtNoFallback(versions, i) ==
    IF i <= Len(versions) THEN versions[i] ELSE <<"undefined">>

\* `versions[i] || versions[0]`; versions[i] is undefined past the end
VersionAt(versions, i) ==
    IF i <= Len(versions) /\ versions[i] # <<>> THEN versions[i] ELSE versions[1]

\* Faulty variant: the prefix test is missing, every named package is kept
RECURSIVE FilterDrupalAll(_, _, _, _)
FilterDrupalAll(packages, fromVersions, toVersions, i) ==
    IF i > Len(packages) THEN <<>>
    ELSE (IF packages[i] # <<>>
          THEN <<[name |-> packages[i],
                  project |-> ReplaceFirst(packages[i], DrupalPrefix, <<>>),
                  from |-> VersionAt(fromVersions, i),
                  to |-> VersionAt(toVersions, i)]>>
          ELSE <<>>)
         \o FilterDrupalAll(packages, fromVersions, toVersions, i + 1)

\* The loop of lines 71-81, from index i (1-based) on
RECURSIVE FilterDrupal(_, _, _, _)
FilterDrupal(packages, fromVersions, toVersions, i) ==
    IF i > Len(packages) THEN <<>>
    ELSE (IF StartsWith(packages[i], DrupalPrefix)
          THEN <<[name |-> packages[i],
                  project |-> ReplaceFirst(packages[i], DrupalPrefix, <<>>),
                  from |-> VersionAt(fromVersions, i),
                  to |-> VersionAt(toVersions, i)]>>
          ELSE <<>>)
         \o FilterDrupal(packages, fromVersions, toVersions, i + 1)

\* Faulty variant: the names are filtered first, the versions are then taken at
\* the index in the filtered list
DrupalPackagesFilteredIndex(e) ==
    FilterDrupal(SelectSeq(SplitTrim(OrEmpty(e.DEPENDENCY_NAMES)),
                           LAMBDA name : StartsWith(name, DrupalPrefix)),
                 SplitTrim(OrEmpty(e.PREVIOUS_VERSION)),
                 SplitTrim(OrEmpty(e.NEW_VERSION)), 1)

\* Lines 65-81: the packages run() works on
DrupalPackages(e) ==
    FilterDrupal(SplitTrim(OrEmpty(e.DEPENDENCY_NAMES)),
                 SplitTrim(OrEmpty(e.PREVIOUS_VERSION)),
                 SplitTrim(OrEmpty(e.NEW_VERSION)), 1)

(***************************************************************************)
(* run(): rendering of one package (src/index.js:104-172)                  *)
(***************************************************************************)
Marker == <<"#", "#", " ", "Drupal Release Notes">>

\* '\n\n---\n\n## Drupal Release Notes\n\n'
SectionHeader == <<"\n", "\n", "-", "-", "-", "\n", "\n">> \o Marker \o <<"\n", "\n">>

ChangelogUrl(project, mappedFrom, mappedTo) ==
    <<"https://api.drupal-mrn.dev/changelog?project=">> \o project
    \o <<"&from=">> \o mappedFrom \o <<"&to=">> \o mappedTo \o <<"&format=json">>

\* `### ${pkg.name}\n\n`
PkgHeading(pkg) == <<"#", "#", "#", " ">> \o pkg.name \o <<"\n", "\n">>

\* Faulty variant: the release page is addressed by the version as reported
ReleaseNotesUrlUnmapped(pkg, mappedTo) ==
    <<"https://www.drupal.org/project/">> \o pkg.project \o <<"/releases/">> \o pkg.to

ReleaseNotesUrl(pkg, mappedTo) ==
    <<"https://www.drupal.org/project/">> \o pkg.project \o <<"/releases/">> \o mappedTo

CompareUrl(pkg, mappedFrom, mappedTo) ==
    <<"https://git.drupalcode.org/project/">> \o pkg.project \o <<"/-/compare/">>
    \o mappedFrom \o <<".", ".", ".">> \o mappedTo

\* `${x}` of a value that may be null or undefined
Interpolate(o, missing) == IF o.def THEN o.s ELSE <<missing>>

\* Faulty variant: /^#[0-9]+:\s*/, which knows no ' by <names>' part
StripIssueIdPlain(summary) ==
    LET n == Len(summary)
        digits == {p \in 2..n : \A j \in 2..p : summary[j] \in Digits}
        colonAt == Cardinality(digits) + 2
        blanks == {q \in (colonAt + 1)..n :
                      \A j \in (colonAt + 1)..q : summary[j] \in WhiteSpace}
    IN  IF n >= 1 /\ summary[1] = "#" /\ digits # {} /\ colonAt <= n
           /\ summary[colonAt] = ":"
        THEN SubSeq(summary, colonAt + Cardinality(blanks) + 1, n)
        ELSE summary

\* summary.replace(/^#[0-9]+(?:\s+by\s+[^:]+)?:\s*/, '')
StripIssueId(summary) ==
    LET n == Len(summary)
        \* last position of the run of digits that follows the '#'
        digitEnd == IF n >= 1 /\ summary[1] = "#"
                    THEN CHOOSE p \in 1..n :
                           /\ \A j \in 2..p : summary[j] \in Digits
                           /\ (p = n \/ summary[p + 1] \notin Digits)
                    ELSE 1
        hasId == n >= 2 /\ summary[1] = "#" /\ digitEnd >= 2
        \* last position of the run of white space starting after position p
        spaceEnd(p) == CHOOSE q \in p..n :
                           /\ \A j \in (p + 1)..q : summary[j] \in WhiteSpace
                           /\ (q = n \/ summary[q + 1] \notin WhiteSpace)
        ws1 == spaceEnd(digitEnd)
        byEnd == ws1 + 2
        hasBy == /\ ws1 > digitEnd
                 /\ byEnd <= n
                 /\ summary[ws1 + 1] = "b" /\ summary[ws1 + 2] = "y"
        colons == {c \in (byEnd + 1)..n : summary[c] = ":"}
        firstColon == CHOOSE c \in colons : \A d \in colons : c <= d
        groupOk == /\ hasBy
                   /\ colons # {}
                   /\ firstColon >= byEnd + 3
                   /\ summary[byEnd + 1] \in WhiteSpace
        plainOk == digitEnd < n /\ summary[digitEnd + 1] = ":"
        colonAt == IF groupOk THEN firstColon ELSE digitEnd + 1
    IN  IF hasId /\ (groupOk \/ plainOk)
        THEN SubSeq(summary, spaceEnd(colonAt) + 1, n)
        ELSE summary

\* Line 142, given the summary with its issue id removed
ChangeLine(change, summaryWithoutId) ==
    <<"*", " ", "[", "#">> \o Interpolate(change.nid, "null") \o <<"]", "(">>
    \o Interpolate(change.link, "undefined") \o <<")">>
    \o (IF summaryWithoutId # <<>> THEN <<":", " ">> \o summaryWithoutId ELSE <<>>)
    \o <<"\n">>

\* One list line (lines 138-142); throws when change.summary is not a string
RenderChange(change) ==
    IF ~change.summary.def
    THEN [threw |-> TRUE, message |-> <<"Cannot read properties of undefined">>,
          out |-> <<>>]
    ELSE [threw |-> FALSE, message |-> <<>>,
          out |-> ChangeLine(change, StripIssueId(change.summary.s))]

\* releaseNotesSection += line, unless rendering the line threw
AppendLine(acc, line) ==
    [threw |-> line.threw, message |-> line.message, out |-> acc.out \o line.out]

\* The inner loop of lines 136-143 from entry i on, appending to acc
RECURSIVE RenderChanges(_, _, _)
RenderChanges(changes, i, acc) ==
    IF acc.threw \/ i > Len(changes) THEN acc
    ELSE RenderChanges(changes, i + 1, AppendLine(acc, RenderChange(changes[i])))

\* Faulty variant: the type is printed as it came
GroupTypeRaw(typeGroup) == Interpolate(typeGroup.type, "undefined")

\* `typeGroup.type || 'Misc'`
GroupType(typeGroup) ==
    IF Truthy(typeGroup.type) THEN typeGroup.type.s ELSE <<"Misc">>

\* Line 135
OpenGroup(acc, type) ==
    [acc EXCEPT !.out = @ \o <<"#", "#", "#", "#", " ">> \o type \o <<"\n", "\n">>]

\* Line 144, not reached when an entry threw
CloseGroup(acc) == IF acc.threw THEN acc ELSE [acc EXCEPT !.out = @ \o <<"\n">>]

\* The loop of lines 129-145 from group i on, appending to acc
RECURSIVE RenderGroups(_, _, _)
RenderGroups(groups, i, acc) ==
    IF acc.threw \/ i > Len(groups) THEN acc
    ELSE IF ~groups[i].hasChanges \/ Len(groups[i].changes) = 0
    THEN RenderGroups(groups, i + 1, acc)
    ELSE RenderGroups(groups, i + 1,
             CloseGroup(RenderChanges(groups[i].changes, 1,
                                      OpenGroup(acc, GroupType(groups[i])))))

\* Faulty variant: only the first naming convention is read
OrElseFirstOnly(a, b) == a

\* `a || b` on two optional strings
OrElse(a, b) == IF Truthy(a) THEN a ELSE b

\* Lines 154-156
RecordLine(recordUrl, recordTitle) ==
    IF Truthy(recordUrl) /\ Truthy(recordTitle)
    THEN <<"*", " ", "[">> \o recordTitle.s \o <<"]", "(">> \o recordUrl.s
         \o <<")", "\n">>
    ELSE <<>>

\* One change-record line (lines 152-156)
RenderRecord(record) ==
    RecordLine(OrElse(record.url, record.link), OrElse(record.title, record.summary))

RECURSIVE RenderRecords(_, _)
RenderRecords(records, i) ==
    IF i > Len(records) THEN <<>>
    ELSE RenderRecord(records[i]) \o RenderRecords(records, i + 1)

\* Lines 148-159
RenderChangeRecords(data) ==
    IF data.hasChangeRecords /\ Len(data.changeRecords) > 0
    THEN <<"#", "#", "#", "#", " ", "Change Records", "\n", "\n">>
         \o RenderRecords(data.changeRecords, 1) \o <<"\n">>
    ELSE <<>>

\* `data && data.changes && data.changes.length > 0`
HasChanges(data) == ~data.isNull /\ data.hasChanges /\ Len(data.changes) > 0

\* `**${pkg.from} -> [${pkg.to}](${releaseNotesUrl})**`
VersionLine(pkg, mappedTo) ==
    <<"*", "*">> \o pkg.from \o <<" -> ", "[">> \o pkg.to \o <<"]", "(">>
    \o ReleaseNotesUrl(pkg, mappedTo) \o <<")", "*", "*">>

\* ` ([compare](${compareUrl}))`
CompareLink(pkg, mappedFrom, mappedTo) ==
    <<" ", "(", "[", "compare", "]", "(">> \o CompareUrl(pkg, mappedFrom, mappedTo)
    \o <<")", ")">>

\* Nothing appended, nothing logged, nothing thrown
NoOutcome ==
    [threw |-> FALSE, message |-> <<>>, out |-> <<>>, hasReleaseNotes |-> FALSE,
     log |-> <<>>]

\* Lines 119-161 once the groups are rendered, or have thrown part-way
FinishChanges(data, groups) ==
    IF groups.threw
    THEN [NoOutcome EXCEPT !.threw = TRUE, !.message = groups.message,
                           !.out = groups.out, !.hasReleaseNotes = TRUE]
    ELSE [NoOutcome EXCEPT !.hasReleaseNotes = TRUE,
                           !.out = groups.out \o RenderChangeRecords(data) \o <<"\n">>]

\* Faulty variant: a non-2xx answer is thrown as an error
HttpFailureThrown(pkg, response) ==
    [NoOutcome EXCEPT !.threw = TRUE,
                      !.message = <<"API returned ", response.status>>]

\* Lines 109-114: the answer is not 2xx
HttpFailure(pkg, response) ==
    [NoOutcome EXCEPT
        !.log = <<[level |-> "warning",
                   msg |-> <<"API returned ", response.status, " for ">>
                           \o pkg.project]>>,
        !.out = PkgHeading(pkg)
                \o <<"_", "Could not fetch release notes (">> \o pkg.from
                \o <<" -> ">> \o pkg.to \o <<")", "_", "\n", "\n">>]

\* Faulty variant: the package is headed but nothing is said below the heading
NoChangesSilent(pkg, mappedTo) ==
    [NoOutcome EXCEPT !.out = PkgHeading(pkg)]

\* Lines 162-167: the answer lists no changes
NoChanges(pkg, mappedTo) ==
    [NoOutcome EXCEPT
        !.out = PkgHeading(pkg) \o VersionLine(pkg, mappedTo) \o <<"\n", "\n">>
                \o <<"_", "No release notes available", "_", "\n", "\n">>]

\* The try block of lines 106-167 for one package: the text appended to
\* releaseNotesSection before it completed or threw, and what was logged.
RenderTry(pkg, mappedFrom, mappedTo, response) ==
    IF response.kind = "reject"
    THEN [NoOutcome EXCEPT !.threw = TRUE, !.message = response.message]
    ELSE IF ~response.ok
    THEN HttpFailure(pkg, response)
    ELSE IF response.jsonThrows
    THEN [NoOutcome EXCEPT !.threw = TRUE, !.message = response.message]
    ELSE IF HasChanges(response.data)
    THEN FinishChanges(response.data,
             RenderGroups(response.data.changes, 1,
                 [threw |-> FALSE, message |-> <<>>,
                  out |-> PkgHeading(pkg) \o VersionLine(pkg, mappedTo)
                          \o CompareLink(pkg, mappedFrom, mappedTo)
                          \o <<"\n", "\n">>]))
    ELSE NoChanges(pkg, mappedTo)

\* Faulty variant: the catch block logs the error and appends nothing
CatchRenderErrorSilent(pkg, t) ==
    IF t.threw
    THEN [t EXCEPT
            !.threw = FALSE,
            !.log = @ \o <<[level |-> "error",
                            msg |-> <<"Error fetching release notes for ">>
                                    \o pkg.project \o <<": ">> \o t.message]>>]
    ELSE t

\* The catch block of lines 168-172 applied to the outcome t of the try block
CatchRenderError(pkg, t) ==
    IF t.threw
    THEN [t EXCEPT
            !.threw = FALSE,
            !.log = @ \o <<[level |-> "error",
                            msg |-> <<"Error fetching release notes for ">>
                                    \o pkg.project \o <<": ">> \o t.message]>>,
            !.out = @ \o PkgHeading(pkg)
                    \o <<"_", "Error fetching release notes: ">> \o t.message
                    \o <<"_", "\n", "\n">>]
    ELSE t

\* The try/catch of lines 106-172 for one package
RenderPackage(pkg, mappedFrom, mappedTo, response) ==
    CatchRenderError(pkg, RenderTry(pkg, mappedFrom, mappedTo, response))

(***************************************************************************)
(* Inputs                                                                  *)
(***************************************************************************)
Tokens == {Undef, Str(<<>>), Str(<<"test-token">>)}

DependencyNames ==
    { Undef,
      Str(<<"other/", "pkg">>),
      Str(<<"drupal/", "core">>),
      Str(<<"drupal/", "core", ",", " ", "other/", "pkg", ",", "drupal/", "token">>) }

\* PREVIOUS_VERSION and NEW_VERSION, as Dependabot reports them together
VersionPairs ==
    { <<Undef, Undef>>,
      <<Str(<<"1", ".", "2", ".", "0">>), Str(<<"1", ".", "3", ".", "0">>)>>,
      <<Str(<<"1", ".", "2", ".", "0", ",", "9", ".", "0", ",", " ", "v", "2">>),
        Str(<<"1", ".", "3", ".", "0", ",", "9", ".", "1", ",", " ", "v", "3">>)>> }

Envs ==
    { [GITHUB_TOKEN |-> t, DEPENDENCY_NAMES |-> d,
       PREVIOUS_VERSION |-> v[1], NEW_VERSION |-> v[2]] :
        t \in Tokens, d \in DependencyNames, v \in VersionPairs }

\* context.payload.pull_request: null, {} or {number: 123}
NoPullRequest == [isNull |-> TRUE, hasNumber |-> FALSE, number |-> 0]
Payloads ==
    { NoPullRequest,
      [isNull |-> FALSE, hasNumber |-> FALSE, number |-> 0],
      [isNull |-> FALSE, hasNumber |-> TRUE, number |-> 123] }

\* PR descriptions before the first run
Bodies ==
    { Undef,
      Str(<<>>),
      Str(<<"Existing PR body">>),
      Str(<<"Existing PR body", "\n", "\n">> \o Marker \o <<"\n", "\n", "Already here">>),
      Str(<<"#">> \o Marker) }

Tag(name) == [name |-> name]

\* Responses of the tag-listing endpoint seen by run()
RunTagResponses ==
    { Rejected(<<"Network error">>),
      HttpError("404"),
      Ok(EmptyObject),
      Ok(TagsBody(<<Tag(<<"8", ".", "x", "-", "1", ".", "2">>),
                    Tag(<<"8", ".", "x", "-", "1", ".", "3">>)>>)) }

Change(nid, link, summary) == [nid |-> nid, link |-> link, summary |-> summary]
Group(type, changes) == [type |-> type, hasChanges |-> TRUE, changes |-> changes]

\* Responses of the changelog endpoint seen by run()
RunChangelogResponses ==
    { Rejected(<<"Network error">>),
      HttpError("500"),
      BadJson(<<"Unexpected token">>),
      Ok(EmptyObject),
      Ok(ChangesBody(<<>>)),
      Ok(ChangesBody(<<Group(Str(<<"Bug">>),
            <<Change(Str(<<"1">>), Str(<<"https://www.drupal.org/i/1">>),
                     Str(<<"#", "1", ":", " ", "Bug fix">>))>>)>>)),
      \* the second entry has no summary: rendering throws part-way
      Ok(ChangesBody(<<Group(Str(<<"Bug">>),
            <<Change(Str(<<"1">>), Str(<<"https://www.drupal.org/i/1">>),
                     Str(<<"#", "1", ":", " ", "Bug fix">>)),
              Change(Str(<<"2">>), Str(<<"https://www.drupal.org/i/2">>),
                     Undef)>>)>>)) }

\* Errors the pull-request host answers with
PrErrors == {<<"Not Found">>}

(***************************************************************************)
(* run() (src/index.js:54-216)                                             *)
(***************************************************************************)
Loc0 ==
    [drupalPackages |-> <<>>, i |-> 0, releaseNotesSection |-> <<>>,
     hasReleaseNotes |-> FALSE, tags |-> <<>>, mappedFrom |-> <<>>,
     mappedTo |-> <<>>, pr |-> Undef, newBody |-> <<>>]

\* What run r has shown of itself: the requests it issued (gets, prCalls), the
\* answers its fetches were given (received), how github.getOctokit ended
\* (client), the answers of the pull-request host (prHeard), core.setFailed
\* and the log
Obs0 ==
    [gets |-> <<>>, prCalls |-> <<>>, failed |-> <<>>, log |-> <<>>,
     received |-> <<>>, client |-> <<>>, prHeard |-> <<>>]

\* An awaited fetch has been answered with `response`
Heard(o, response) == [o EXCEPT !.received = Append(@, response)]

Info(msg) == [level |-> "info", msg |-> msg]
Warning(msg) == [level |-> "warning", msg |-> msg]

\* How a call into @actions/github ended: it returned (resolved), or it threw
\* (rejected with) an Error carrying `message`
Returned == [threw |-> FALSE, message |-> <<>>]
Threw(message) == [threw |-> TRUE, message |-> message]

\* An awaited call of the pull-request host has resolved, or rejected
PrResolved(o) == [o EXCEPT !.prHeard = Append(@, Returned)]
PrRejected(o, message) == [o EXCEPT !.prHeard = Append(@, Threw(message))]

PrGetCall == [op |-> "get", body |-> <<>>]
PrUpdateCall(body) == [op |-> "update", body |-> body]

\* Faulty variant: the outer catch swallows the error
SetFailedSwallows(l, o, message) ==
    [pc |-> "done", loc |-> l, obs |-> o]

\* The outer catch (lines 213-215)
SetFailed(l, o, message) ==
    [pc |-> "done", loc |-> l, obs |-> [o EXCEPT !.failed = Append(@, message)]]

\* Faulty variant: the tag list and the changelog are requested side by side
BeginPackageFanOut(l, o) ==
    [pc |-> "awaitTags", loc |-> l,
     obs |-> [o EXCEPT
        !.log = Append(@, Info(<<"Fetching release notes for ">>
                               \o l.drupalPackages[l.i].project
                               \o <<" from ">> \o l.drupalPackages[l.i].from
                               \o <<" to ">> \o l.drupalPackages[l.i].to)),
        !.gets = @ \o <<TagsUrl(l.drupalPackages[l.i].project),
                        ChangelogUrl(l.drupalPackages[l.i].project,
                                     l.drupalPackages[l.i].from,
                                     l.drupalPackages[l.i].to)>>]]

\* Top of the loop body for package l.i (lines 93-96, up to the fetch inside
\* fetchProjectTags)
BeginPackage(l, o) ==
    LET pkg == l.drupalPackages[l.i]
    IN  [pc |-> "awaitTags", loc |-> l,
         obs |-> [o EXCEPT
            !.log = Append(@, Info(<<"Fetching release notes for ">> \o pkg.project
                                   \o <<" from ">> \o pkg.from \o <<" to ">> \o pkg.to)),
            !.gets = Append(@, TagsUrl(pkg.project))]]

\* Faulty variant: only the payload is validated, not its number
NoPrContextPayloadOnly(p) == p.isNull

\* `!context.payload.pull_request || !context.payload.pull_request.number`
NoPrContext(p) == p.isNull \/ ~p.hasNumber \/ p.number = 0

\* Lines 179-193, up to the await of pulls.get: github.getOctokit(token) has
\* ended as `client` tells
WithClient(l, o, p, client) ==
    IF client.threw
    THEN SetFailed(l, o, client.message)
    ELSE IF NoPrContext(p)
    THEN [pc |-> "done", loc |-> l,
          obs |-> [o EXCEPT !.failed = Append(@,
              <<"This action must be run in the context of a pull request">>)]]
    ELSE [pc |-> "awaitPrGet", loc |-> l,
          obs |-> [o EXCEPT !.prCalls = Append(@, PrGetCall)]]

\* After the loop (lines 175-193, up to the await of pulls.get)
AfterLoop(l, o, p, client) ==
    WithClient(l,
               [o EXCEPT !.log = IF ~l.hasReleaseNotes
                                 THEN Append(@, Info(
                                     <<"No release notes were retrieved from the API.">>))
                                 ELSE @,
                         !.client = Append(@, client)],
               p, client)

\* Lines 83-96, given the filtered packages
EnterLoop(drupalPackages) ==
    IF Len(drupalPackages) = 0
    THEN [pc |-> "done", loc |-> Loc0,
          obs |-> [Obs0 EXCEPT !.log = Append(@,
              Info(<<"No drupal/ packages found in this PR">>))]]
    ELSE BeginPackage([Loc0 EXCEPT !.drupalPackages = drupalPackages,
                                   !.i = 1,
                                   !.releaseNotesSection = SectionHeader],
                      Obs0)

\* Faulty variant: the credential is checked after the loop has been entered
RunEntryLateTokenCheck(e) ==
    IF Truthy(e.GITHUB_TOKEN) \/ Len(DrupalPackages(e)) = 0
    THEN EnterLoop(DrupalPackages(e))
    ELSE SetFailed(Loc0, EnterLoop(DrupalPackages(e)).obs,
                   <<"GITHUB_TOKEN is required">>)

\* run() from its entry to its first await or return (lines 55-96)
RunEntry(e) ==
    IF ~Truthy(e.GITHUB_TOKEN)
    THEN SetFailed(Loc0, Obs0, <<"GITHUB_TOKEN is required">>)
    ELSE EnterLoop(DrupalPackages(e))

\* Lines 100-102
MappedLog(pkg, mappedFrom, mappedTo) ==
    IF mappedFrom # pkg.from \/ mappedTo # pkg.to
    THEN <<Info(<<"Mapped versions for ">> \o pkg.project \o <<": ">>
                \o pkg.from \o <<" -> ">> \o mappedFrom \o <<", ">>
                \o pkg.to \o <<" -> ">> \o mappedTo)>>
    ELSE <<>>

\* Lines 100-107, given the tags and the mapped versions
IssueChangelog(l, o, fetched, mappedFrom, mappedTo) ==
    [pc |-> "awaitChangelog",
     loc |-> [l EXCEPT !.tags = fetched.ret, !.mappedFrom = mappedFrom,
                       !.mappedTo = mappedTo],
     obs |-> [o EXCEPT
        !.log = @ \o [k \in 1..Len(fetched.warned) |-> Warning(fetched.warned[k])]
                  \o MappedLog(l.drupalPackages[l.i], mappedFrom, mappedTo),
        !.gets = Append(@, ChangelogUrl(l.drupalPackages[l.i].project, mappedFrom,
                                        mappedTo))]]

\* Faulty variant: the request carries the versions as Dependabot reports them
MapPackageVersionsUnmapped(l, o, fetched) ==
    IssueChangelog(l, o, fetched, l.drupalPackages[l.i].from,
                   l.drupalPackages[l.i].to)

\* Lines 97-98, given what fetchProjectTags returned
MapPackageVersions(l, o, fetched) ==
    IssueChangelog(l, o, fetched,
                   mapVersionToTag(l.drupalPackages[l.i].from, fetched.ret),
                   mapVersionToTag(l.drupalPackages[l.i].to, fetched.ret))

\* Lines 96-107: fetchProjectTags has answered; map the versions and issue
\* the changelog request
\* Faulty variant: a tag fetch that failed is issued again
AfterTagsRetries(l, o, response) ==
    IF response.kind = "reject" \/ ~response.ok
    THEN [pc |-> "awaitTags", loc |-> l,
          obs |-> [o EXCEPT !.gets = Append(@, TagsUrl(l.drupalPackages[l.i].project))]]
    ELSE MapPackageVersions(l, o,
                            fetchProjectTags(l.drupalPackages[l.i].project, response))

AfterTags(l, o, response) ==
    MapPackageVersions(l, o, fetchProjectTags(l.drupalPackages[l.i].project, response))

\* Faulty variant: the block is assigned to the section, not appended to it
NextPackageOverwrites(l, o, p, rendered, client) ==
    IF l.i < Len(l.drupalPackages)
    THEN BeginPackage([l EXCEPT !.releaseNotesSection = SectionHeader \o rendered.out,
                                !.hasReleaseNotes = @ \/ rendered.hasReleaseNotes,
                                !.i = @ + 1],
                      [o EXCEPT !.log = @ \o rendered.log])
    ELSE AfterLoop([l EXCEPT !.releaseNotesSection = SectionHeader \o rendered.out,
                             !.hasReleaseNotes = @ \/ rendered.hasReleaseNotes],
                   [o EXCEPT !.log = @ \o rendered.log], p, client)

\* The end of one iteration, given the rendered block (lines 92, 173)
NextPackage(l, o, p, rendered, client) ==
    IF l.i < Len(l.drupalPackages)
    THEN BeginPackage([l EXCEPT !.releaseNotesSection = @ \o rendered.out,
                                !.hasReleaseNotes = @ \/ rendered.hasReleaseNotes,
                                !.i = @ + 1],
                      [o EXCEPT !.log = @ \o rendered.log])
    ELSE AfterLoop([l EXCEPT !.releaseNotesSection = @ \o rendered.out,
                             !.hasReleaseNotes = @ \/ rendered.hasReleaseNotes],
                   [o EXCEPT !.log = @ \o rendered.log], p, client)

\* Lines 107-193: the changelog request has answered; render the package and
\* go on with the next one, or leave the loop
AfterChangelog(l, o, p, response, client) ==
    NextPackage(l, o, p,
                RenderPackage(l.drupalPackages[l.i], l.mappedFrom, l.mappedTo,
                              response),
                client)

\* Faulty variant: the marker is looked for at the start of the description only
AlreadyPresentAtStart(body) == Truthy(body) /\ StartsWith(body.s, Marker)

\* `pr.body && pr.body.includes('## Drupal Release Notes')`
AlreadyPresent(body) == Truthy(body) /\ Includes(body.s, Marker)

\* Faulty variant: `pr.body + releaseNotesSection`, without the `|| ''`
NewBodyNoDefault(body, releaseNotesSection) ==
    Interpolate(body, "null") \o releaseNotesSection

\* `(pr.body || '') + releaseNotesSection`
NewBody(body, releaseNotesSection) == OrEmpty(body) \o releaseNotesSection

\* Faulty variant: the `return` of line 198 is missing
AfterPrGetNoReturn(l, o, body) ==
    LET newBody == NewBody(body, l.releaseNotesSection)
        o1 == IF AlreadyPresent(body)
              THEN [o EXCEPT !.log = Append(@,
                       Info(<<"Release notes already present in PR description">>))]
              ELSE o
    IN  [pc |-> "awaitPrUpdate",
         loc |-> [l EXCEPT !.pr = body, !.newBody = newBody],
         obs |-> [o1 EXCEPT !.prCalls = Append(@, PrUpdateCall(newBody))]]

\* Lines 189-209: pulls.get has answered with the description `body`
AfterPrGet(l, o, body) ==
    IF AlreadyPresent(body)
    THEN [pc |-> "done", loc |-> [l EXCEPT !.pr = body],
          obs |-> [o EXCEPT !.log = Append(@,
              Info(<<"Release notes already present in PR description">>))]]
    ELSE LET newBody == NewBody(body, l.releaseNotesSection)
         IN  [pc |-> "awaitPrUpdate",
              loc |-> [l EXCEPT !.pr = body, !.newBody = newBody],
              obs |-> [o EXCEPT !.prCalls = Append(@, PrUpdateCall(newBody))]]

\* Line 211
AfterPrUpdate(l, o) ==
    [pc |-> "done", loc |-> l,
     obs |-> [o EXCEPT !.log = Append(@,
         Info(<<"Successfully updated PR description with Drupal release notes">>))]]

(***************************************************************************)
(* The state machine.  Spec is one run of the action; SpecSeq is the        *)
(* workflow triggering the action again and again on the same pull request *)
(* (opened, synchronize, ...), each run starting after the one before it   *)
(* has returned.                                                           *)
(***************************************************************************)
CallIdle == [fn |-> "none", version |-> <<>>, tags |-> <<>>, project |-> <<>>,
             response |-> Rejected(<<>>), done |-> FALSE, result |-> <<>>,
             threw |-> FALSE, warned |-> <<>>]

Init ==
    /\ env \in Envs
    /\ payload \in Payloads
    /\ prBody0 \in Bodies
    /\ prBody = prBody0
    /\ prWrites = <<>>
    /\ pc = [r \in Runs |-> "idle"]
    /\ loc = [r \in Runs |-> Loc0]
    /\ obs = [r \in Runs |-> Obs0]
    /\ call = CallIdle

\* Install the outcome of a synchronous stretch of run r
Goto(r, step) ==
    /\ pc' = [pc EXCEPT ![r] = step.pc]
    /\ loc' = [loc EXCEPT ![r] = step.loc]
    /\ obs' = [obs EXCEPT ![r] = step.obs]

\* Install the first stretch of run r; the runs before it have exited
Launch(r, step) ==
    /\ pc' = [q \in Runs |-> IF q = r THEN step.pc
                             ELSE IF pc[q] = "idle" THEN "idle" ELSE "exited"]
    /\ loc' = [q \in Runs |-> IF q = r THEN step.loc ELSE Loc0]
    /\ obs' = [q \in Runs |-> IF q = r THEN step.obs ELSE Obs0]

\* The workflow starts run r once the runs before it have returned.  A run
\* that has returned is "done"; when the next run starts its process has
\* exited and its records are gone ("exited").
StartRun(r) ==
    /\ pc[r] = "idle"
    /\ \A q \in Runs : q < r => pc[q] \in {"done", "exited"}
    /\ Launch(r, RunEntry(env))
    /\ UNCHANGED <<env, payload, prBody0, prBody, prWrites, call>>

\* The tags endpoint answers with one of `responses`
TagsAnswerFrom(r, responses) ==
    /\ pc[r] = "awaitTags"
    /\ \E response \in responses :
           Goto(r, AfterTags(loc[r], Heard(obs[r], response), response))
    /\ UNCHANGED <<env, payload, prBody0, prBody, prWrites, call>>

TagsAnswer(r) == TagsAnswerFrom(r, RunTagResponses)

\* The changelog endpoint answers with one of `responses`; after the last
\* package github.getOctokit ends as one of `clients` tells
ChangelogAnswerWith(r, responses, clients) ==
    /\ pc[r] = "awaitChangelog"
    /\ \E response \in responses, client \in clients :
           Goto(r, AfterChangelog(loc[r], Heard(obs[r], response), payload, response,
                                  client))
    /\ UNCHANGED <<env, payload, prBody0, prBody, prWrites, call>>

\* github.getOctokit(token) throws for a falsy token only, which line 61 has
\* excluded: the client is built
ChangelogAnswerFrom(r, responses) == ChangelogAnswerWith(r, responses, {Returned})

PrGetResolve(r) ==
    /\ pc[r] = "awaitPrGet"
    /\ Goto(r, AfterPrGet(loc[r], PrResolved(obs[r]), prBody))
    /\ UNCHANGED <<env, payload, prBody0, prBody, prWrites, call>>

PrGetReject(r) ==
    /\ pc[r] = "awaitPrGet"
    /\ \E message \in PrErrors :
           Goto(r, SetFailed(loc[r], PrRejected(obs[r], message), message))
    /\ UNCHANGED <<env, payload, prBody0, prBody, prWrites, call>>

\* Faulty variant: the host appends what the run rendered to the description
\* it holds
PrUpdateResolveExtends(r) ==
    /\ pc[r] = "awaitPrUpdate"
    /\ prBody' = Str(OrEmpty(prBody) \o loc[r].releaseNotesSection)
    /\ prWrites' = Append(prWrites, OrEmpty(prBody) \o loc[r].releaseNotesSection)
    /\ Goto(r, AfterPrUpdate(loc[r], PrResolved(obs[r])))
    /\ UNCHANGED <<env, payload, prBody0, call>>

PrUpdateResolve(r) ==
    /\ pc[r] = "awaitPrUpdate"
    /\ prBody' = Str(loc[r].newBody)
    /\ prWrites' = Append(prWrites, loc[r].newBody)
    /\ Goto(r, AfterPrUpdate(loc[r], PrResolved(obs[r])))
    /\ UNCHANGED <<env, payload, prBody0, call>>

PrUpdateReject(r) ==
    /\ pc[r] = "awaitPrUpdate"
    /\ \E message \in PrErrors :
           Goto(r, SetFailed(loc[r], PrRejected(obs[r], message), message))
    /\ UNCHANGED <<env, payload, prBody0, prBody, prWrites, call>>

\* One step of run r, the changelog endpoint answering with one of `responses`
StepWith(r, responses) ==
    \/ StartRun(r)
    \/ TagsAnswer(r)
    \/ ChangelogAnswerFrom(r, responses)
    \/ PrGetResolve(r)
    \/ PrGetReject(r)
    \/ PrUpdateResolve(r)
    \/ PrUpdateReject(r)

Step(r) == StepWith(r, RunChangelogResponses)

Next == Step(1)

Spec == Init /\ [][Next]_vars

\* Sequential runs, on updates of at most MaxSeqPackages drupal/ packages
InitSeq == Init /\ Len(DrupalPackages(env)) <= MaxSeqPackages

\* Whether a run appends again does not depend on what its packages render
\* to: a failed, an empty and a non-empty answer stand for the rest
SeqChangelogResponses ==
    { Rejected(<<"Network error">>),
      Ok(EmptyObject),
      Ok(ChangesBody(<<Group(Str(<<"Bug">>),
            <<Change(Str(<<"1">>), Str(<<"https://www.drupal.org/i/1">>),
                     Str(<<"#", "1", ":", " ", "Bug fix">>))>>)>>)) }

NextSeq == \E r \in Runs : StepWith(r, SeqChangelogResponses)

SpecSeq == InitSeq /\ [][NextSeq]_vars

(***************************************************************************)
(* run() before version mapping (unnamed/part_000:4-155), as a function of *)
(* what its awaits are answered with: the changelog answers package by     *)
(* package, how github.getOctokit ended, the answers of the pull-request   *)
(* host and the description read.                                          *)
(***************************************************************************)
\* part_000:47-111: the try/catch for one package, every URL built from the
\* versions as reported
OldRenderPackage(pkg, response) == RenderPackage(pkg, pkg.from, pkg.to, response)

Old0 == [gets |-> <<>>, failed |-> <<>>, prCalls |-> <<>>, log |-> <<>>,
         section |-> <<>>, hasReleaseNotes |-> FALSE]

\* part_000:43-111 for one package, given what its try/catch rendered; the
\* changelog is requested for the versions as reported (part_000:45)
OldPackage(acc, pkg, rendered) ==
    [acc EXCEPT
        !.log = Append(@, Info(<<"Fetching release notes for ">> \o pkg.project
                               \o <<" from ">> \o pkg.from \o <<" to ">> \o pkg.to))
                \o rendered.log,
        !.gets = Append(@, ChangelogUrl(pkg.project, pkg.from, pkg.to)),
        !.section = @ \o rendered.out,
        !.hasReleaseNotes = @ \/ rendered.hasReleaseNotes]

\* part_000:42-112 from package k on
RECURSIVE OldLoop(_, _, _, _)
OldLoop(pkgs, responses, k, acc) ==
    IF k > Len(pkgs) THEN acc
    ELSE OldLoop(pkgs, responses, k + 1,
                 OldPackage(acc, pkgs[k], OldRenderPackage(pkgs[k], responses[k])))

OldFailed(acc, message) == [acc EXCEPT !.failed = Append(@, message)]
OldInfo(acc, msg) == [acc EXCEPT !.log = Append(@, Info(msg))]
OldPrCall(acc, c) == [acc EXCEPT !.prCalls = Append(@, c)]

\* part_000:142-151
OldUpdate(acc, prHeard) ==
    IF prHeard[2].threw THEN OldFailed(acc, prHeard[2].message)
    ELSE OldInfo(acc, <<"Successfully updated PR description with Drupal release notes">>)

\* part_000:129-151
OldRead(acc, prHeard, body) ==
    IF prHeard[1].threw THEN OldFailed(acc, prHeard[1].message)
    ELSE IF AlreadyPresent(body)
    THEN OldInfo(acc, <<"Release notes already present in PR description">>)
    ELSE OldUpdate(OldPrCall(acc, PrUpdateCall(NewBody(body, acc.section))), prHeard)

\* part_000:118-151
OldPrPhase(acc, p, client, prHeard, body) ==
    IF client[1].threw THEN OldFailed(acc, client[1].message)
    ELSE IF NoPrContext(p)
    THEN OldFailed(acc, <<"This action must be run in the context of a pull request">>)
    ELSE OldRead(OldPrCall(acc, PrGetCall), prHeard, body)

\* part_000:114-116
OldAfterLoop(acc) ==
    IF ~acc.hasReleaseNotes
    THEN OldInfo(acc, <<"No release notes were retrieved from the API.">>)
    ELSE acc

\* part_000:33-151, given the filtered packages
OldWithPackages(pkgs, p, responses, client, prHeard, body) ==
    IF Len(pkgs) = 0
    THEN OldInfo(Old0, <<"No drupal/ packages found in this PR">>)
    ELSE OldPrPhase(OldAfterLoop(OldLoop(pkgs, responses, 1,
                                         [Old0 EXCEPT !.section = SectionHeader])),
                    p, client, prHeard, body)

\* part_000:4-155
OldRun(e, p, responses, client, prHeard, body) ==
    IF ~Truthy(e.GITHUB_TOKEN)
    THEN OldFailed(Old0, <<"GITHUB_TOKEN is required">>)
    ELSE OldWithPackages(DrupalPackages(e), p, responses, client, prHeard, body)

(***************************************************************************)
(* One run whose network calls all come to an end: every awaited fetch and *)
(* every awaited call of the pull-request host resolves or rejects at some *)
(* time.  Whether a run is started at all is left open.                    *)
(***************************************************************************)
NextLive == StepWith(1, SeqChangelogResponses)

SpecLive ==
    /\ Init
    /\ [][NextLive]_vars
    /\ WF_vars(TagsAnswer(1))
    /\ WF_vars(ChangelogAnswerFrom(1, SeqChangelogResponses))
    /\ WF_vars(PrGetResolve(1) \/ PrGetReject(1))
    /\ WF_vars(PrUpdateResolve(1) \/ PrUpdateReject(1))

(***************************************************************************)
(* Two runs of the action at once on the same pull request (two workflow   *)
(* events close together): each is its own process, and the two interleave *)
(* at their awaits.                                                        *)
(***************************************************************************)
Racers == {1, 2}

\* The workflow starts run r, whatever the other run is doing
StartConcurrent(r) ==
    /\ pc[r] = "idle"
    /\ Goto(r, RunEntry(env))
    /\ UNCHANGED <<env, payload, prBody0, prBody, prWrites, call>>

\* What the two runs write differs when their answers differ: a failed and a
\* mapping tag list, a failed and a non-empty changelog stand for the rest
RaceTagResponses ==
    { HttpError("404"),
      Ok(TagsBody(<<Tag(<<"8", ".", "x", "-", "1", ".", "2">>),
                    Tag(<<"8", ".", "x", "-", "1", ".", "3">>)>>)) }

RaceChangelogResponses ==
    { Rejected(<<"Network error">>),
      Ok(ChangesBody(<<Group(Str(<<"Bug">>),
            <<Change(Str(<<"1">>), Str(<<"https://www.drupal.org/i/1">>),
                     Str(<<"#", "1", ":", " ", "Bug fix">>))>>)>>)) }

NextRace ==
    \E r \in Racers :
        \/ StartConcurrent(r)
        \/ TagsAnswerFrom(r, RaceTagResponses)
        \/ ChangelogAnswerFrom(r, RaceChangelogResponses)
        \/ PrGetResolve(r)
        \/ PrGetReject(r)
        \/ PrUpdateResolve(r)
        \/ PrUpdateReject(r)

SpecRace == InitSeq /\ [][NextRace]_vars

(***************************************************************************)
(* One run in which every call into @actions/github may throw, the         *)
(* construction of the client included                                     *)
(***************************************************************************)
\* github.getOctokit returns the client, or throws
Clients == {Returned, Threw(<<"Parameter token or opts.auth is required">>)}

NextFail ==
    \/ StartRun(1)
    \/ TagsAnswer(1)
    \/ ChangelogAnswerWith(1, SeqChangelogResponses, Clients)
    \/ PrGetResolve(1)
    \/ PrGetReject(1)
    \/ PrUpdateResolve(1)
    \/ PrUpdateReject(1)

SpecFail == Init /\ [][NextFail]_vars

(***************************************************************************)
(* The pure functions on their own: one call with inputs drawn at Init     *)
(***************************************************************************)
\* Everything run() owns stays at rest while a single function is called.
AtRest ==
    /\ env = [GITHUB_TOKEN |-> Undef, DEPENDENCY_NAMES |-> Undef,
              PREVIOUS_VERSION |-> Undef, NEW_VERSION |-> Undef]
    /\ payload = NoPullRequest
    /\ prBody0 = Undef
    /\ prBody = Undef
    /\ prWrites = <<>>
    /\ pc = [r \in Runs |-> "idle"]
    /\ loc = [r \in Runs |-> Loc0]
    /\ obs = [r \in Runs |-> Obs0]

VersionAlphabet == {"1", "2", ".", "v"}

\* Tag names a project may carry
TagPool ==
    { <<"1", ".", "2", ".", "1">>,
      <<"8", ".", "x", "-", "1", ".", "2">>,
      <<"8", ".", "x", "-", "2", ".", "1">>,
      <<"7", ".", "x", "-", "1", ".", "2">>,
      <<"8", ".", "x", "-", "v", "1", ".", "2">> }

MapVersions == StringsUpTo(VersionAlphabet, MaxVerLen) \cup TagPool
TagLists == SeqsUpTo(TagPool, MaxTags)

InitMap ==
    /\ AtRest
    /\ \E version \in MapVersions, tags \in TagLists :
           call = [CallIdle EXCEPT !.fn = "mapVersionToTag",
                                   !.version = version, !.tags = tags]

CallMapVersionToTag ==
    /\ call.fn = "mapVersionToTag"
    /\ ~call.done
    /\ call' = [call EXCEPT !.done = TRUE,
                            !.result = mapVersionToTag(call.version, call.tags)]
    /\ UNCHANGED <<env, payload, prBody0, prBody, prWrites, pc, loc, obs>>

NextMap == CallMapVersionToTag

SpecMap == InitMap /\ [][NextMap]_vars

Projects == {<<"token">>, <<"search_api">>}

TagObjLists == {[i \in 1..Len(names) |-> Tag(names[i])] : names \in TagLists}

\* Responses of the tag-listing endpoint
TagResponses ==
    { Rejected(<<"Network error">>),
      HttpError("404"),
      HttpError("500"),
      BadJson(<<"Unexpected token">>),
      Ok(JsonNull),
      Ok(EmptyObject) }
    \cup {Ok(TagsBody(tagObjs)) : tagObjs \in TagObjLists}

InitTags ==
    /\ AtRest
    /\ \E project \in Projects, response \in TagResponses :
           call = [CallIdle EXCEPT !.fn = "fetchProjectTags",
                                   !.project = project, !.response = response]

CallFetchProjectTags ==
    /\ call.fn = "fetchProjectTags"
    /\ ~call.done
    /\ LET fetched == fetchProjectTags(call.project, call.response)
       IN  call' = [call EXCEPT !.done = TRUE, !.result = fetched.ret,
                                !.threw = fetched.threw, !.warned = fetched.warned]
    /\ UNCHANGED <<env, payload, prBody0, prBody, prWrites, pc, loc, obs>>

NextTags == CallFetchProjectTags

SpecTags == InitTags /\ [][NextTags]_vars

(***************************************************************************)
(* run() from its entry to its first await or return, on every shape of    *)
(* the three comma-separated lists                                         *)
(***************************************************************************)
\* Entries of DEPENDENCY_NAMES, PREVIOUS_VERSION and NEW_VERSION between the
\* commas; some carry white space around them, some are empty
NameEntries == { <<"drupal/", "core">>, <<" ", "drupal/", "token", " ">>, <<"other/", "pkg">> }
PreviousEntries == { <<"1", ".", "0">>, <<" ", "2", ".", "0">>, <<>> }
NewEntries == { <<"1", ".", "1">>, <<>> }

\* Array.prototype.join(','), which is how the workflow builds the lists
RECURSIVE JoinComma(_)
JoinComma(entries) ==
    IF Len(entries) = 0 THEN <<>>
    ELSE IF Len(entries) = 1 THEN entries[1]
    ELSE entries[1] \o <<",">> \o JoinComma(Tail(entries))

\* A variable of the environment holding a list, or unset
ListValues(entries) ==
    {Undef} \cup {Str(JoinComma(list)) : list \in SeqsUpTo(entries, MaxList) \ {<<>>}}

InitFilter ==
    /\ \E d \in ListValues(NameEntries), p \in ListValues(PreviousEntries),
          n \in ListValues(NewEntries) :
           env = [GITHUB_TOKEN |-> Str(<<"test-token">>), DEPENDENCY_NAMES |-> d,
                  PREVIOUS_VERSION |-> p, NEW_VERSION |-> n]
    /\ payload = [isNull |-> FALSE, hasNumber |-> TRUE, number |-> 123]
    /\ prBody0 = Str(<<"Existing PR body">>)
    /\ prBody = prBody0
    /\ prWrites = <<>>
    /\ pc = [r \in Runs |-> "idle"]
    /\ loc = [r \in Runs |-> Loc0]
    /\ obs = [r \in Runs |-> Obs0]
    /\ call = CallIdle

NextFilter == StartRun(1)

SpecFilter == InitFilter /\ [][NextFilter]_vars

(***************************************************************************)
(* Properties                                                              *)
(***************************************************************************)
\* The text '## Drupal Release Notes' occurs in s
HasMarker(s) ==
    \E i \in 1..(Len(s) - 3) :
        s[i] = "#" /\ s[i + 1] = "#" /\ s[i + 2] = " "
        /\ s[i + 3] = "Drupal Release Notes"

\* The description as text: the empty string when it is null
Text(body) == IF body.def THEN body.s ELSE <<>>

IsUpdate(c) == c.op = "update"
IsGet(c) == c.op = "get"
UpdateCalls(r) == SelectSeq(obs[r].prCalls, IsUpdate)
GetCalls(r) == SelectSeq(obs[r].prCalls, IsGet)

\* Run r has been started and its records are held
Held(r) == pc[r] \notin {"idle", "exited"}

TokenPresent == env.GITHUB_TOKEN.def /\ env.GITHUB_TOKEN.s # <<>>

\* C1: starting from a description without the heading, over sequential runs
\* the section is appended at most once: at most one update is ever accepted,
\* the description is the original one or the original one followed by the
\* section written, and a run that comes after the write issues no update.
C1_AppendedAtMostOnce ==
    ~HasMarker(Text(prBody0)) =>
        /\ Len(prWrites) <= 1
        /\ prWrites = <<>> => prBody = prBody0
        /\ prWrites # <<>> =>
              /\ prBody = Str(prWrites[1])
              /\ SubSeq(prWrites[1], 1, Len(Text(prBody0))) = Text(prBody0)
              /\ HasMarker(prWrites[1])
        /\ \A r \in Runs :
              /\ pc[r] = "awaitPrUpdate" => prWrites = <<>>
              /\ (Held(r) /\ UpdateCalls(r) # <<>> /\ prWrites # <<>>) =>
                    /\ pc[r] = "done"
                    /\ Len(UpdateCalls(r)) = 1
                    /\ prWrites = <<UpdateCalls(r)[1].body>>

\* A later run has found the marker written by an earlier one and returned
\* without an update call.
C1_Witness ==
    \E r \in Runs :
        /\ r > 1
        /\ pc[r] = "done"
        /\ ~HasMarker(Text(prBody0))
        /\ Len(prWrites) = 1
        /\ obs[r].prCalls = <<PrGetCall>>
        /\ HasMarker(Text(loc[r].pr))

\* C2: a run that has read a description containing '## Drupal Release Notes'
\* has returned with no update call and no fatal signal; the last thing it
\* did was to log that the release notes are already present.
C2_MarkerPresentNoUpdate ==
    \A r \in Runs :
        (Held(r) /\ HasMarker(Text(loc[r].pr))) =>
            /\ pc[r] = "done"
            /\ UpdateCalls(r) = <<>>
            /\ Len(GetCalls(r)) = 1
            /\ obs[r].failed = <<>>
            /\ obs[r].log[Len(obs[r].log)] =
                   Info(<<"Release notes already present in PR description">>)
            /\ prBody = loc[r].pr

\* The first run reads a description that carried the heading from the start.
C2_Witness ==
    \E r \in Runs :
        /\ pc[r] = "done"
        /\ HasMarker(Text(prBody0))
        /\ prWrites = <<>>
        /\ HasMarker(Text(loc[r].pr))
        /\ obs[r].gets # <<>>

\* No entry of the trimmed, comma-split DEPENDENCY_NAMES starts with 'drupal/'
NoDrupalEntry ==
    LET names == SplitTrim(IF env.DEPENDENCY_NAMES.def THEN env.DEPENDENCY_NAMES.s
                           ELSE <<>>)
    IN  \A i \in 1..Len(names) : names[i] = <<>> \/ names[i][1] # "drupal/"

\* What C3 promises of a run: no request, no PR call, no fatal signal, one
\* informational message, returned.
QuietNoOp(r) ==
    /\ pc[r] = "done"
    /\ obs[r].gets = <<>>
    /\ obs[r].prCalls = <<>>
    /\ obs[r].failed = <<>>
    /\ obs[r].log = <<Info(<<"No drupal/ packages found in this PR">>)>>

\* C3 as stated: whenever no entry starts with 'drupal/', the run is a quiet
\* no-op (whatever the credential).
C3_Original == \A r \in Runs : (Held(r) /\ NoDrupalEntry) => QuietNoOp(r)

\* C3, amended: with a non-empty credential, whenever no entry of the trimmed,
\* comma-split dependency-names list starts with 'drupal/', the run issues no
\* tag or changelog GET, no PR read, no PR update and no fatal signal; it logs
\* one informational message and returns.
C3_NoDrupalNoOp ==
    \A r \in Runs : (Held(r) /\ TokenPresent /\ NoDrupalEntry) => QuietNoOp(r)

\* A run with a credential and only a non-drupal package has returned.
C3_Witness ==
    \E r \in Runs :
        /\ pc[r] = "done"
        /\ TokenPresent
        /\ NoDrupalEntry
        /\ env.DEPENDENCY_NAMES.def
        /\ obs[r].log # <<>>

\* C4: with GITHUB_TOKEN absent or empty the run reports exactly the fatal
\* failure 'GITHUB_TOKEN is required' and does nothing else: no GET, no PR
\* read, no PR update, whatever the dependency lists contain.
C4_MissingTokenFatal ==
    \A r \in Runs :
        (Held(r) /\ ~TokenPresent) =>
            /\ pc[r] = "done"
            /\ obs[r].failed = <<<<"GITHUB_TOKEN is required">>>>
            /\ obs[r].gets = <<>>
            /\ obs[r].prCalls = <<>>

\* A run with an empty credential and drupal/ packages to report has failed.
C4_Witness ==
    \E r \in Runs :
        /\ pc[r] = "done"
        /\ env.GITHUB_TOKEN = Str(<<>>)
        /\ ~NoDrupalEntry
        /\ obs[r].failed # <<>>

\* The payload has no pull request, or the pull request has no number
MissingPrContext == payload.isNull \/ ~payload.hasNumber

\* C5: with a credential and at least one drupal/ package, a run without a
\* pull-request payload, or with a payload without number, never calls the PR
\* API, and when it has returned it has reported exactly the fatal failure
\* 'This action must be run in the context of a pull request'; both cases end
\* the same way.
C5_NoPrContextFatal ==
    \A r \in Runs :
        (Held(r) /\ TokenPresent /\ ~NoDrupalEntry /\ MissingPrContext) =>
            /\ obs[r].prCalls = <<>>
            /\ pc[r] \in {"awaitTags", "awaitChangelog", "done"}
            /\ pc[r] = "done" =>
                   obs[r].failed =
                       <<<<"This action must be run in the context of a pull request">>>>
            /\ pc[r] # "done" => obs[r].failed = <<>>

\* A run whose payload has a pull request without number has failed after
\* processing its packages.
C5_Witness ==
    \E r \in Runs :
        /\ pc[r] = "done"
        /\ TokenPresent
        /\ ~payload.isNull /\ ~payload.hasNumber
        /\ obs[r].gets # <<>>
        /\ obs[r].failed # <<>>

\* C6: a run issues at most one update call; its body is the description read
\* (the empty string when it was null) followed by the section built, so the
\* description read is a prefix of it, and a null description yields the
\* section alone, never text starting with 'null'.
C6_BodyIsDescriptionPlusSection ==
    \A r \in Runs :
        /\ Len(UpdateCalls(r)) <= 1
        /\ pc[r] = "awaitPrUpdate" => Len(UpdateCalls(r)) = 1
        /\ UpdateCalls(r) # <<>> =>
              LET body == UpdateCalls(r)[1].body
                  read == loc[r].pr
              IN  /\ ~HasMarker(Text(read))
                  /\ body = Text(read) \o loc[r].releaseNotesSection
                  /\ SubSeq(body, 1, Len(Text(read))) = Text(read)
                  /\ SubSeq(loc[r].releaseNotesSection, 1, 7)
                         = <<"\n", "\n", "-", "-", "-", "\n", "\n">>
                  /\ ~read.def => (body[1] # "null" /\ body = loc[r].releaseNotesSection)

\* A run has read a null description and issued its update call.
C6_Witness ==
    \E r \in Runs :
        /\ pc[r] = "awaitPrUpdate"
        /\ ~loc[r].pr.def
        /\ Len(UpdateCalls(r)) = 1
        /\ loc[r].hasReleaseNotes

\* C7: whenever the version occurs verbatim in the tag list, mapVersionToTag
\* returns it unchanged, also when its legacy tag is in the list too.
C7_VerbatimWins ==
    (call.fn = "mapVersionToTag" /\ call.done
     /\ \E i \in 1..Len(call.tags) : call.tags[i] = call.version)
        => call.result = call.version

\* v is three dot-separated runs of digits and nothing else
IsSemverShape(v) ==
    \E i, j \in 1..Len(v) :
        /\ 1 < i /\ i + 1 < j /\ j < Len(v)
        /\ v[i] = "." /\ v[j] = "."
        /\ \A k \in (1..Len(v)) \ {i, j} : v[k] \in Digits

\* '8.x-' followed by v up to, not including, its last dot
LegacyOf(v) ==
    LET dots == {k \in 1..Len(v) : v[k] = "."}
        last == CHOOSE k \in dots : \A d \in dots : d <= k
    IN  <<"8", ".", "x", "-">> \o SubSeq(v, 1, last - 1)

InTags(t, tags) == \E i \in 1..Len(tags) : tags[i] = t

\* The verbatim version and its legacy tag are both in the list.
C7_Witness ==
    /\ call.fn = "mapVersionToTag" /\ call.done
    /\ InTags(call.version, call.tags)
    /\ IsSemverShape(call.version)
    /\ InTags(LegacyOf(call.version), call.tags)

\* C8: for a version that is not in the tag list, mapVersionToTag returns
\* '8.x-MAJOR.MINOR' exactly when the version is MAJOR.MINOR.PATCH (digits
\* only) and that tag is in the list; in every other case it returns the
\* version unchanged.  It has a result for every input.
C8_LegacyMapping ==
    (call.fn = "mapVersionToTag" /\ call.done /\ ~InTags(call.version, call.tags))
        => call.result =
              (IF IsSemverShape(call.version)
                  /\ InTags(LegacyOf(call.version), call.tags)
               THEN LegacyOf(call.version)
               ELSE call.version)

\* A version has been mapped to its legacy tag.
C8_Witness ==
    /\ call.fn = "mapVersionToTag" /\ call.done
    /\ ~InTags(call.version, call.tags)
    /\ call.result # call.version
    /\ call.result = LegacyOf(call.version)

\* The response is one fetchProjectTags cannot take tags from
TagFetchFailed(response) ==
    \/ response.kind = "reject"
    \/ ~response.ok
    \/ response.jsonThrows
    \/ response.data.isNull

\* C9: fetchProjectTags never throws; on a non-success status, a rejected
\* fetch and a failure while parsing or reading the body it logs one warning
\* and returns the empty sequence.
C9_TagFetchNeverThrows ==
    (call.fn = "fetchProjectTags" /\ call.done) =>
        /\ ~call.threw
        /\ TagFetchFailed(call.response) =>
              (call.result = <<>> /\ Len(call.warned) = 1)

\* The body of a successful response could not be parsed.
C9_Witness ==
    /\ call.fn = "fetchProjectTags" /\ call.done
    /\ call.response.ok /\ call.response.jsonThrows
    /\ call.result = <<>>

\* C10: on a successful response fetchProjectTags returns the name of each
\* element of `tags`, in the server's order and with the same length; a body
\* without `tags` yields the empty sequence.
C10_TagNamesInOrder ==
    (call.fn = "fetchProjectTags" /\ call.done /\ ~TagFetchFailed(call.response)) =>
        /\ call.warned = <<>>
        /\ call.response.data.hasTags =>
              /\ Len(call.result) = Len(call.response.data.tags)
              /\ \A i \in 1..Len(call.result) :
                     call.result[i] = call.response.data.tags[i].name
        /\ ~call.response.data.hasTags => call.result = <<>>

\* Two different tags have been returned in the server's order.
C10_Witness ==
    /\ call.fn = "fetchProjectTags" /\ call.done
    /\ Len(call.result) >= 2
    /\ call.result[1] # call.result[2]
    /\ call.result[1] = call.response.data.tags[1].name

(***************************************************************************)
(* One run on one drupal/ package, on every shape of changelog answer      *)
(***************************************************************************)
\* Issue ids and the links that go with them; the last entry has a null nid
\* and an empty link
IssueRefs ==
    { <<Str(<<"1", "2">>), Str(<<"https://www.drupal.org/i/12">>)>>,
      <<Str(<<"7">>), Str(<<>>)>>,
      <<Undef, Str(<<>>)>> }

\* The parts summaries are made of: '#', digits, ' by <names>', ':', blanks
\* and the text proper
SummaryMarks == { <<>>, <<"#">> }
SummaryDigits == { <<>>, <<"7">>, <<"1", "2">> }
SummaryAuthors ==
    { <<>>,
      <<" ", "b", "y", " ", "bob">>,
      <<" ", "b", "y", " ", "bob", ",", " ", "al">>,
      <<" ", " ", "b", "y", "\t", "bob">>,
      <<" ", "b", "y">> }
SummaryColons == { <<>>, <<":">>, <<":", " ">>, <<":", " ", " ">> }
SummaryTexts ==
    { <<>>,
      <<"Fix">>,
      <<"Fix", ":", " ", "more">>,
      <<"[", "#", "7", "]", " ", "feat", ":", " ", "x">> }

Summaries ==
    {Undef} \cup
    { Str(m \o d \o a \o c \o t) :
        m \in SummaryMarks, d \in SummaryDigits, a \in SummaryAuthors,
        c \in SummaryColons, t \in SummaryTexts }

\* Every entry a group may hold
Changes == { Change(ref[1], ref[2], summary) : ref \in IssueRefs, summary \in Summaries }

\* The entries and groups that longer answers are made of
FixEntry ==
    Change(Str(<<"1", "2">>), Str(<<"https://www.drupal.org/i/12">>),
           Str(<<"#", "1", "2", ":", " ", "Fix">>))
UpdateEntry == Change(Undef, Str(<<>>), Str(<<"Update file">>))

\* The lists of entries a group may hold
EntryLists ==
    { <<>>, <<FixEntry>>, <<UpdateEntry>>, <<FixEntry, UpdateEntry>>,
      <<UpdateEntry, FixEntry>> }

NoChangesGroup(type) == [type |-> type, hasChanges |-> FALSE, changes |-> <<>>]

Groups ==
    { Group(type, changes) :
        type \in {Str(<<"Bug">>), Undef}, changes \in EntryLists }
    \cup { NoChangesGroup(Str(<<"Task">>)) }

Record(url, link, title, summary) ==
    [url |-> url, link |-> link, title |-> title, summary |-> summary]

\* Change records under both naming conventions, and one without a title
SomeRecords ==
    << Record(Str(<<"https://www.drupal.org/node/1">>), Undef, Str(<<"Record one">>), Undef),
       Record(Undef, Str(<<"https://www.drupal.org/node/2">>), Undef, Str(<<"Record two">>)),
       Record(Str(<<"https://www.drupal.org/node/3">>), Undef, Undef, Undef) >>

\* Responses of the changelog endpoint
RenderResponses ==
    { Rejected(<<"Network error">>),
      HttpError("404"),
      HttpError("500"),
      BadJson(<<"Unexpected token">>),
      Ok(JsonNull),
      Ok(EmptyObject),
      Ok(WithChangeRecords(EmptyObject, SomeRecords)) }
    \cup { Ok(ChangesBody(<<Group(Str(<<"Bug">>), <<change>>)>>)) : change \in Changes }
    \cup { Ok(ChangesBody(groups)) : groups \in SeqsUpTo(Groups, MaxGroups) }
    \cup { Ok(WithChangeRecords(ChangesBody(<<group>>), SomeRecords)) : group \in Groups }

InitRender ==
    /\ env = [GITHUB_TOKEN |-> Str(<<"test-token">>),
              DEPENDENCY_NAMES |-> Str(<<"drupal/", "token">>),
              PREVIOUS_VERSION |-> Str(<<"1", ".", "2", ".", "0">>),
              NEW_VERSION |-> Str(<<"1", ".", "3", ".", "0">>)]
    /\ payload = [isNull |-> FALSE, hasNumber |-> TRUE, number |-> 123]
    /\ prBody0 = Str(<<"Existing PR body">>)
    /\ prBody = prBody0
    /\ prWrites = <<>>
    /\ pc = [r \in Runs |-> "idle"]
    /\ loc = [r \in Runs |-> Loc0]
    /\ obs = [r \in Runs |-> Obs0]
    /\ call = CallIdle

NextRender ==
    \/ StartRun(1)
    \/ TagsAnswer(1)
    \/ ChangelogAnswerFrom(1, RenderResponses)
    \/ PrGetResolve(1)
    \/ PrGetReject(1)
    \/ PrUpdateResolve(1)
    \/ PrUpdateReject(1)

SpecRender == InitRender /\ [][NextRender]_vars

(***************************************************************************)
(* The filter of lines 65-81                                               *)
(***************************************************************************)
\* The three lists as run() splits them
NamesOf(e) == SplitTrim(OrEmpty(e.DEPENDENCY_NAMES))
PreviousOf(e) == SplitTrim(OrEmpty(e.PREVIOUS_VERSION))
NewOf(e) == SplitTrim(OrEmpty(e.NEW_VERSION))

\* Indices of the names that begin with 'drupal/'
Survivors(names) ==
    {i \in 1..Len(names) : Len(names[i]) >= 1 /\ names[i][1] = "drupal/"}

\* Index in the unfiltered list of the k-th surviving name
SurvivorIndex(names, k) ==
    CHOOSE i \in Survivors(names) :
        Cardinality({j \in Survivors(names) : j <= i}) = k

\* The packages kept are the names beginning with 'drupal/', in input order,
\* each with the name stripped of the prefix as its project
KeepsDrupalNames(pkgs, names) ==
    /\ Len(pkgs) = Cardinality(Survivors(names))
    /\ \A k \in 1..Len(pkgs) :
          /\ pkgs[k].name = names[SurvivorIndex(names, k)]
          /\ pkgs[k].project = Tail(names[SurvivorIndex(names, k)])

\* The entry of a version list at an index, the first entry standing in for
\* an empty one
EntryOrFirst(versions, i) == IF versions[i] # <<>> THEN versions[i] ELSE versions[1]

PairedByIndex(pkgs, names, previous, new) ==
    (Len(names) = Len(previous) /\ Len(names) = Len(new)) =>
        \A k \in 1..Len(pkgs) :
            /\ pkgs[k].from = previous[SurvivorIndex(names, k)]
            /\ pkgs[k].to = new[SurvivorIndex(names, k)]

PairedByIndexOrFirst(pkgs, names, previous, new) ==
    (Len(names) = Len(previous) /\ Len(names) = Len(new)) =>
        \A k \in 1..Len(pkgs) :
            /\ pkgs[k].from = EntryOrFirst(previous, SurvivorIndex(names, k))
            /\ pkgs[k].to = EntryOrFirst(new, SurvivorIndex(names, k))

EqualLengths(e) ==
    /\ Len(NamesOf(e)) = Len(PreviousOf(e))
    /\ Len(NamesOf(e)) = Len(NewOf(e))

\* C11 as stated: run() keeps exactly the names beginning with 'drupal/', in
\* input order, with the name stripped of the prefix as project; when the
\* three lists have equal length, the package at index i of the unfiltered
\* list of names carries the previous and the new version at index i.
C11_Original ==
    \A r \in Runs : Held(r) /\ TokenPresent =>
        /\ KeepsDrupalNames(loc[r].drupalPackages, NamesOf(env))
        /\ PairedByIndex(loc[r].drupalPackages, NamesOf(env), PreviousOf(env),
                         NewOf(env))

\* C11, amended: as above, for the versions at index i that are not empty;
\* an empty entry of a version list is replaced by the first entry of that list.
C11_FilterPairsByIndex ==
    \A r \in Runs : Held(r) /\ TokenPresent =>
        /\ KeepsDrupalNames(loc[r].drupalPackages, NamesOf(env))
        /\ PairedByIndexOrFirst(loc[r].drupalPackages, NamesOf(env),
                                PreviousOf(env), NewOf(env))

\* A name that is not kept comes first; the package after it carries the
\* versions of its own index, which differ from those of the first index
C11_Witness ==
    \E r \in Runs :
        /\ Held(r) /\ TokenPresent /\ EqualLengths(env)
        /\ Len(NamesOf(env)) >= 2
        /\ 1 \notin Survivors(NamesOf(env))
        /\ 2 \in Survivors(NamesOf(env))
        /\ loc[r].drupalPackages # <<>>
        /\ loc[r].drupalPackages[1].from = PreviousOf(env)[2]
        /\ loc[r].drupalPackages[1].to = NewOf(env)[2]
        /\ PreviousOf(env)[2] \notin {<<>>, PreviousOf(env)[1]}
        /\ NewOf(env)[2] \notin {<<>>, NewOf(env)[1]}

\* Some surviving package sits at an index one of the version lists lacks
PastTheEnd(names, previous, new) ==
    \E i \in Survivors(names) : i > Len(previous) \/ i > Len(new)

FallsBackToFirst(pkgs, names, previous, new) ==
    \A k \in 1..Len(pkgs) :
        /\ SurvivorIndex(names, k) > Len(previous) => pkgs[k].from = previous[1]
        /\ SurvivorIndex(names, k) > Len(new) => pkgs[k].to = new[1]

\* Nothing fatal was signalled and nothing was logged above the info level
NoErrorReported(o) ==
    /\ o.failed = <<>>
    /\ \A j \in 1..Len(o.log) : o.log[j].level = "info"

\* C12: a surviving package whose index lies past the end of a version list
\* takes the first element of that list as its from (resp. to), and the run
\* reports no error for it.
C12_ShortListFallsBack ==
    \A r \in Runs : Held(r) /\ TokenPresent =>
        /\ FallsBackToFirst(loc[r].drupalPackages, NamesOf(env), PreviousOf(env),
                            NewOf(env))
        /\ PastTheEnd(NamesOf(env), PreviousOf(env), NewOf(env))
              => NoErrorReported(obs[r])

\* The second name survives, both version lists have one element, and the
\* package carries those first elements
C12_Witness ==
    \E r \in Runs :
        /\ Held(r) /\ TokenPresent
        /\ Len(NamesOf(env)) = 2 /\ Len(PreviousOf(env)) = 1 /\ Len(NewOf(env)) = 1
        /\ Survivors(NamesOf(env)) = {1, 2}
        /\ PreviousOf(env)[1] # <<>> /\ NewOf(env)[1] # <<>>
        /\ Len(loc[r].drupalPackages) = 2
        /\ loc[r].drupalPackages[2].from = PreviousOf(env)[1]
        /\ loc[r].drupalPackages[2].to = NewOf(env)[1]
        /\ pc[r] = "awaitTags"

(***************************************************************************)
(* The loop of lines 92-173                                                *)
(***************************************************************************)
\* The tag names an answer of the tag-listing endpoint yields; none when the
\* fetch failed
TagsHeard(response) ==
    IF TagFetchFailed(response) \/ ~response.data.hasTags THEN <<>>
    ELSE [k \in 1..Len(response.data.tags) |-> response.data.tags[k].name]

\* The tag a version is looked up under: itself when listed, else its legacy
\* tag when it is MAJOR.MINOR.PATCH and that tag is listed, else itself
TagFor(v, tags) ==
    IF InTags(v, tags) THEN v
    ELSE IF IsSemverShape(v) /\ InTags(LegacyOf(v), tags) THEN LegacyOf(v)
    ELSE v

ChangelogRequest(project, from, to) ==
    <<"https://api.drupal-mrn.dev/changelog?project=">> \o project
    \o <<"&from=">> \o from \o <<"&to=">> \o to \o <<"&format=json">>

\* The k-th package of run r asked for its changelog with the versions mapped
\* through the tags its own tag fetch yielded
AskedWithMappedVersions(pkg, tags, request) ==
    request = ChangelogRequest(pkg.project, TagFor(pkg.from, tags),
                               TagFor(pkg.to, tags))

\* C13: whenever the tag fetch of a package has been answered, the changelog
\* request of that package has been issued, for the package's project and for
\* from/to mapped through the tags of that very answer; after a failed tag
\* fetch, or when no tag matches, it carries the original from/to.
C13_ChangelogRequestUsesMappedVersions ==
    \A r \in Runs : Held(r) =>
        \A k \in 1..Len(loc[r].drupalPackages) :
            (2 * k - 1 <= Len(obs[r].received)) =>
                /\ 2 * k <= Len(obs[r].gets)
                /\ AskedWithMappedVersions(loc[r].drupalPackages[k],
                                           TagsHeard(obs[r].received[2 * k - 1]),
                                           obs[r].gets[2 * k])
                /\ (\/ TagsHeard(obs[r].received[2 * k - 1]) = <<>>
                    \/ (/\ TagFor(loc[r].drupalPackages[k].from,
                                   TagsHeard(obs[r].received[2 * k - 1]))
                             = loc[r].drupalPackages[k].from
                        /\ TagFor(loc[r].drupalPackages[k].to,
                                  TagsHeard(obs[r].received[2 * k - 1]))
                             = loc[r].drupalPackages[k].to))
                   => obs[r].gets[2 * k]
                        = ChangelogRequest(loc[r].drupalPackages[k].project,
                                           loc[r].drupalPackages[k].from,
                                           loc[r].drupalPackages[k].to)

\* Of two packages of one run, the first was asked for under legacy tags its
\* tag fetch listed, the second, whose tag fetch failed, under its original
\* versions
C13_Witness ==
    \E r \in Runs :
        /\ Held(r)
        /\ Len(loc[r].drupalPackages) = 2
        /\ Len(obs[r].gets) = 4
        /\ obs[r].gets[2] = ChangelogRequest(<<"core">>,
                                             <<"8", ".", "x", "-", "1", ".", "2">>,
                                             <<"8", ".", "x", "-", "1", ".", "3">>)
        /\ loc[r].drupalPackages[1].from = <<"1", ".", "2", ".", "0">>
        /\ TagFetchFailed(obs[r].received[3])
        /\ obs[r].gets[4] = ChangelogRequest(loc[r].drupalPackages[2].project,
                                             loc[r].drupalPackages[2].from,
                                             loc[r].drupalPackages[2].to)

(***************************************************************************)
(* The block of one package                                                *)
(***************************************************************************)
\* '\n\n---\n\n## Drupal Release Notes\n\n'
HeaderText ==
    <<"\n", "\n", "-", "-", "-", "\n", "\n", "#", "#", " ",
      "Drupal Release Notes", "\n", "\n">>

\* What follows the header in a section
Blocks(section) == SubSeq(section, Len(HeaderText) + 1, Len(section))

Begins(s, prefix) == Len(prefix) <= Len(s) /\ SubSeq(s, 1, Len(prefix)) = prefix

Contains(s, part) ==
    \E i \in 0..(Len(s) - Len(part)) : SubSeq(s, i + 1, i + Len(part)) = part

\* The changelog endpoint answered 2xx with a body that parsed
Answered(response) ==
    response.kind = "http" /\ response.ok /\ ~response.jsonThrows

\* ... and the body lists at least one group of changes
ListsChanges(response) ==
    /\ Answered(response)
    /\ ~response.data.isNull
    /\ response.data.hasChanges
    /\ Len(response.data.changes) > 0

HeadingText(pkg) == <<"#", "#", "#", " ">> \o pkg.name \o <<"\n", "\n">>

\* '**from -> [to](https://www.drupal.org/project/<project>/releases/<tag>)**'
SubheadingText(pkg, toTag) ==
    <<"*", "*">> \o pkg.from \o <<" -> ", "[">> \o pkg.to
    \o <<"]", "(", "https://www.drupal.org/project/">> \o pkg.project
    \o <<"/releases/">> \o toTag \o <<")", "*", "*">>

\* ' ([compare](https://git.drupalcode.org/project/<project>/-/compare/<a>...<b>))'
CompareText(pkg, fromTag, toTag) ==
    <<" ", "(", "[", "compare", "]", "(", "https://git.drupalcode.org/project/">>
    \o pkg.project \o <<"/-/compare/">> \o fromTag \o <<".", ".", ".">> \o toTag
    \o <<")", ")">>

\* '_Could not fetch release notes (from -> to)_'
CouldNotFetchText(pkg) ==
    <<"_", "Could not fetch release notes (">> \o pkg.from \o <<" -> ">> \o pkg.to
    \o <<")", "_", "\n", "\n">>

\* The block of a package shows the mapped versions in its URLs, the original
\* ones in its text and the full name in its heading
BlockShowsVersions(block, pkg, fromTag, toTag, response) ==
    /\ Begins(block, HeadingText(pkg))
    /\ (response.kind = "http" /\ ~response.ok) =>
          block = HeadingText(pkg) \o CouldNotFetchText(pkg)
    /\ Answered(response) =>
          Begins(block, HeadingText(pkg) \o SubheadingText(pkg, toTag))
    /\ ListsChanges(response) =>
          Begins(block, HeadingText(pkg) \o SubheadingText(pkg, toTag)
                        \o CompareText(pkg, fromTag, toTag) \o <<"\n", "\n">>)

\* Run r has rendered its only package
RenderedOne(r) ==
    /\ Held(r)
    /\ Len(loc[r].drupalPackages) = 1
    /\ Len(obs[r].received) = 2

\* C14: the block of a package starts with '### <full package name>'; its
\* release-notes URL and its compare URL carry the mapped versions, while the
\* visible from/to text of the subheading and of the 'could not fetch'
\* placeholder carries the versions as reported.
C14_UrlsMappedTextOriginal ==
    \A r \in Runs : RenderedOne(r) =>
        BlockShowsVersions(Blocks(loc[r].releaseNotesSection),
                           loc[r].drupalPackages[1],
                           TagFor(loc[r].drupalPackages[1].from,
                                  TagsHeard(obs[r].received[1])),
                           TagFor(loc[r].drupalPackages[1].to,
                                  TagsHeard(obs[r].received[1])),
                           obs[r].received[2])

\* A block with changes whose versions were mapped to legacy tags
C14_Witness ==
    \E r \in Runs :
        /\ RenderedOne(r)
        /\ ListsChanges(obs[r].received[2])
        /\ TagFor(loc[r].drupalPackages[1].to, TagsHeard(obs[r].received[1]))
             = <<"8", ".", "x", "-", "1", ".", "3">>
        /\ loc[r].drupalPackages[1].to = <<"1", ".", "3", ".", "0">>
        /\ Contains(loc[r].releaseNotesSection,
                    <<"/releases/", "8", ".", "x", "-", "1", ".", "3", ")">>)
        /\ Contains(loc[r].releaseNotesSection,
                    <<"[", "1", ".", "3", ".", "0", "]">>)
        /\ Begins(Blocks(loc[r].releaseNotesSection),
                  <<"#", "#", "#", " ", "drupal/", "token", "\n", "\n">>)

(***************************************************************************)
(* Failures inside the loop do not end the run                             *)
(***************************************************************************)
HttpFailed(response) == response.kind = "http" /\ ~response.ok

\* The answer made the try block throw before anything was appended
ThrewAtOnce(response) ==
    response.kind = "reject" \/ (response.kind = "http" /\ response.ok
                                  /\ response.jsonThrows)

Logged(o, level, msg) ==
    \E j \in 1..Len(o.log) : o.log[j].level = level /\ o.log[j].msg = msg

\* The only fatal signals of a run that got into its loop come from the
\* pull-request phase
OnlyPrPhaseFailures(o) ==
    \A j \in 1..Len(o.failed) :
        o.failed[j] \in PrErrors
            \cup {<<"This action must be run in the context of a pull request">>}

\* After the answer for package k the run went on: to the tag request of
\* package k+1 or, after the last package, to the pull-request phase
WentOn(r, k) ==
    IF k < Len(loc[r].drupalPackages)
    THEN Len(obs[r].gets) >= 2 * k + 1
    ELSE (pc[r] \in {"awaitPrGet", "awaitPrUpdate", "done"}
          /\ (MissingPrContext \/ Len(GetCalls(r)) = 1))

\* Run r has returned without a fatal signal, having read a description that
\* lacked the marker
ReturnedAfterRead(r) ==
    /\ pc[r] = "done"
    /\ obs[r].failed = <<>>
    /\ Len(GetCalls(r)) = 1
    /\ ~HasMarker(Text(loc[r].pr))

\* The changelog answers of run r so far, in package order
ChangelogAnswers(r) ==
    [k \in 1..(Len(obs[r].received) \div 2) |-> obs[r].received[2 * k]]

\* Every package of run r has had its changelog answer
AllAnswered(r) ==
    /\ Len(loc[r].drupalPackages) > 0
    /\ Len(ChangelogAnswers(r)) = Len(loc[r].drupalPackages)

EveryPackageHttpFailed(r) ==
    AllAnswered(r) /\ \A k \in 1..Len(ChangelogAnswers(r)) :
                          HttpFailed(ChangelogAnswers(r)[k])

EveryPackageThrew(r) ==
    AllAnswered(r) /\ \A k \in 1..Len(ChangelogAnswers(r)) :
                          ThrewAtOnce(ChangelogAnswers(r)[k])

\* C15: a changelog answer with a non-success status is logged as a warning
\* and leaves the block '### <name>' + '_Could not fetch release notes (from
\* -> to)_' with the versions as reported; the run goes on with the next
\* package, signals nothing fatal for it, and still issues the update when
\* every package failed this way.
C15_HttpFailureIsNotFatal ==
    \A r \in Runs : Held(r) =>
        /\ \A k \in 1..Len(ChangelogAnswers(r)) :
              HttpFailed(ChangelogAnswers(r)[k]) =>
                /\ Logged(obs[r], "warning",
                          <<"API returned ", ChangelogAnswers(r)[k].status, " for ">>
                          \o loc[r].drupalPackages[k].project)
                /\ Contains(loc[r].releaseNotesSection,
                            HeadingText(loc[r].drupalPackages[k])
                            \o CouldNotFetchText(loc[r].drupalPackages[k]))
                /\ WentOn(r, k)
                /\ OnlyPrPhaseFailures(obs[r])
        /\ (EveryPackageHttpFailed(r) /\ ReturnedAfterRead(r)) =>
              /\ Len(UpdateCalls(r)) = 1
              /\ UpdateCalls(r)[1].body = Text(loc[r].pr) \o loc[r].releaseNotesSection

\* Two packages, both answered with a non-success status, and the update made
C15_Witness ==
    \E r \in Runs :
        /\ Len(loc[r].drupalPackages) = 2
        /\ EveryPackageHttpFailed(r)
        /\ ReturnedAfterRead(r)
        /\ Len(UpdateCalls(r)) = 1
        /\ Contains(UpdateCalls(r)[1].body, CouldNotFetchText(loc[r].drupalPackages[2]))
        /\ prWrites # <<>>

\* '_Error fetching release notes: <message>_'
ErrorFetchingText(message) ==
    <<"_", "Error fetching release notes: ">> \o message \o <<"_", "\n", "\n">>

\* C16: when the changelog request throws, the error is logged with its
\* message and the block '### <name>' + '_Error fetching release notes:
\* <message>_' is appended; the run goes on with the next package, signals
\* nothing fatal for it, and still issues the update when every package
\* failed this way.
C16_ThrownRequestIsNotFatal ==
    \A r \in Runs : Held(r) =>
        /\ \A k \in 1..Len(ChangelogAnswers(r)) :
              ThrewAtOnce(ChangelogAnswers(r)[k]) =>
                /\ Logged(obs[r], "error",
                          <<"Error fetching release notes for ">>
                          \o loc[r].drupalPackages[k].project \o <<": ">>
                          \o ChangelogAnswers(r)[k].message)
                /\ Contains(loc[r].releaseNotesSection,
                            HeadingText(loc[r].drupalPackages[k])
                            \o ErrorFetchingText(ChangelogAnswers(r)[k].message))
                /\ WentOn(r, k)
                /\ OnlyPrPhaseFailures(obs[r])
        /\ (EveryPackageThrew(r) /\ ReturnedAfterRead(r)) =>
              /\ Len(UpdateCalls(r)) = 1
              /\ UpdateCalls(r)[1].body = Text(loc[r].pr) \o loc[r].releaseNotesSection

\* Two packages, the request of the first rejected, the body of the second
\* unreadable, and the update made with both placeholders
C16_Witness ==
    \E r \in Runs :
        /\ Len(loc[r].drupalPackages) = 2
        /\ EveryPackageThrew(r)
        /\ ChangelogAnswers(r)[1].kind = "reject"
        /\ ChangelogAnswers(r)[2].kind = "http"
        /\ ReturnedAfterRead(r)
        /\ Len(UpdateCalls(r)) = 1
        /\ Contains(UpdateCalls(r)[1].body, ErrorFetchingText(<<"Network error">>))
        /\ Contains(UpdateCalls(r)[1].body, ErrorFetchingText(<<"Unexpected token">>))
        /\ prWrites # <<>>

(***************************************************************************)
(* Answers without changes                                                 *)
(***************************************************************************)
\* '_No release notes available_'
NoneAvailableText == <<"_", "No release notes available", "_", "\n", "\n">>

\* The block of a package whose answer lists no changes: heading, subheading
\* with the release link alone, and the notice
NoneAvailableBlock(pkg, toTag) ==
    HeadingText(pkg) \o SubheadingText(pkg, toTag) \o <<"\n", "\n">>
    \o NoneAvailableText

NoPackageListsChanges(r) ==
    AllAnswered(r) /\ \A k \in 1..Len(ChangelogAnswers(r)) :
                          ~ListsChanges(ChangelogAnswers(r)[k])

\* C17: a 2xx answer whose change list is empty or missing leaves the block
\* '### <name>', '**from -> [to](release URL of the mapped to)**' without a
\* compare link, '_No release notes available_'; when no package of the run
\* listed changes, 'No release notes were retrieved from the API.' is logged
\* and the update is still issued.
C17_EmptyAnswerBlock ==
    \A r \in Runs : Held(r) =>
        /\ \A k \in 1..Len(ChangelogAnswers(r)) :
              (Answered(ChangelogAnswers(r)[k]) /\ ~ListsChanges(ChangelogAnswers(r)[k]))
                => Contains(loc[r].releaseNotesSection,
                            NoneAvailableBlock(loc[r].drupalPackages[k],
                                TagFor(loc[r].drupalPackages[k].to,
                                       TagsHeard(obs[r].received[2 * k - 1]))))
        /\ NoPackageListsChanges(r) =>
              /\ Logged(obs[r], "info",
                        <<"No release notes were retrieved from the API.">>)
              /\ ReturnedAfterRead(r) =>
                    /\ Len(UpdateCalls(r)) = 1
                    /\ UpdateCalls(r)[1].body
                         = Text(loc[r].pr) \o loc[r].releaseNotesSection

\* Two packages, one answered without a change list and one with an empty
\* one, the first under a legacy tag; the update was made
C17_Witness ==
    \E r \in Runs :
        /\ Len(loc[r].drupalPackages) = 2
        /\ NoPackageListsChanges(r)
        /\ Answered(ChangelogAnswers(r)[1]) /\ Answered(ChangelogAnswers(r)[2])
        /\ ChangelogAnswers(r)[1].data.hasChanges # ChangelogAnswers(r)[2].data.hasChanges
        /\ Contains(loc[r].releaseNotesSection,
                    <<"/releases/", "8", ".", "x", "-", "1", ".", "3", ")", "*", "*",
                      "\n", "\n">> \o NoneAvailableText)
        /\ ReturnedAfterRead(r)
        /\ Len(UpdateCalls(r)) = 1
        /\ Contains(UpdateCalls(r)[1].body, NoneAvailableText)

(***************************************************************************)
(* One block per package, in input order                                   *)
(***************************************************************************)
\* Positions in a text where a line starts with '### '
HeadingPositions(s) ==
    {p \in 1..(Len(s) - 3) :
        /\ s[p] = "#" /\ s[p + 1] = "#" /\ s[p + 2] = "#" /\ s[p + 3] = " "
        /\ (p = 1 \/ s[p - 1] = "\n")}

\* The rest of the heading line that starts at p
HeadingAt(s, p) ==
    LET ends == {q \in (p + 4)..Len(s) : s[q] = "\n"}
    IN  IF ends = {} THEN SubSeq(s, p + 4, Len(s))
        ELSE SubSeq(s, p + 4, (CHOOSE q \in ends : \A e \in ends : q <= e) - 1)

\* The text of `section` splits into one run of blocks per package, in the
\* order of pkgs: `first` gives the position of the heading that opens the
\* blocks of each package, and every heading names the package whose blocks
\* it lies in
SplitsInOrder(section, pkgs, first) ==
    /\ \A k \in 1..Len(pkgs) :
          /\ first[k] \in HeadingPositions(section)
          /\ HeadingAt(section, first[k]) = pkgs[k].name
          /\ k > 1 => first[k - 1] < first[k]
    /\ \A p \in HeadingPositions(section) :
          \E k \in 1..Len(pkgs) :
              /\ first[k] <= p
              /\ k < Len(pkgs) => p < first[k + 1]
              /\ HeadingAt(section, p) = pkgs[k].name

OneBlockRunPerPackage(section, pkgs) ==
    /\ Begins(section, HeaderText)
    /\ \E first \in [1..Len(pkgs) -> HeadingPositions(section)] :
          SplitsInOrder(section, pkgs, first)

\* What an update call wrote after the description that was read
WrittenSection(r) ==
    SubSeq(UpdateCalls(r)[1].body, Len(Text(loc[r].pr)) + 1,
           Len(UpdateCalls(r)[1].body))

\* C18: in the section of every update call each surviving package has a
\* block headed '### <full package name>', whatever its answer was; the
\* blocks follow the order of the packages and none is missing.
C18_EveryPackageHasBlock ==
    \A r \in Runs : UpdateCalls(r) # <<>> =>
        /\ AllAnswered(r)
        /\ OneBlockRunPerPackage(WrittenSection(r), loc[r].drupalPackages)

\* An update for two packages whose answers differ: one failed or was empty,
\* the other listed changes
C18_Witness ==
    \E r \in Runs :
        /\ UpdateCalls(r) # <<>>
        /\ Len(loc[r].drupalPackages) = 2
        /\ ~Answered(ChangelogAnswers(r)[1])
        /\ ListsChanges(ChangelogAnswers(r)[2])
        /\ Cardinality(HeadingPositions(WrittenSection(r))) = 2
        /\ Contains(WrittenSection(r),
                    <<"\n", "#", "#", "#", " ", "drupal/", "token", "\n">>)

(***************************************************************************)
(* The lines of the change entries                                         *)
(***************************************************************************)
\* The entries an answer lists, group by group
EntriesOf(response) ==
    UNION { {<<g, j>> : j \in 1..Len(response.data.changes[g].changes)} :
              g \in 1..Len(response.data.changes) }

EntryAt(response, gj) == response.data.changes[gj[1]].changes[gj[2]]

\* Every entry of the answer has a summary, so that every line gets rendered
EverySummaryGiven(response) ==
    \A gj \in EntriesOf(response) : EntryAt(response, gj).summary.def

\* '* [#<nid>](<link>)'
LinkedIssueText(nid, link) ==
    <<"*", " ", "[", "#">> \o nid \o <<"]", "(">> \o link \o <<")">>

\* C19: an entry whose nid is null is rendered as the line '* <summary>', the
\* raw summary alone: the block shows no '[#null]', no 'null' and no empty
\* link '[]()' for it, while the entries with an id are rendered with their
\* link.
C19_NullNidRendersSummaryAlone ==
    \A r \in Runs :
        (RenderedOne(r) /\ ListsChanges(obs[r].received[2])
         /\ EverySummaryGiven(obs[r].received[2])) =>
            \A gj \in EntriesOf(obs[r].received[2]) :
                IF EntryAt(obs[r].received[2], gj).nid.def
                THEN Contains(loc[r].releaseNotesSection,
                         <<"\n">> \o LinkedIssueText(
                                         EntryAt(obs[r].received[2], gj).nid.s,
                                         EntryAt(obs[r].received[2], gj).link.s))
                ELSE /\ Contains(loc[r].releaseNotesSection,
                                 <<"\n", "*", " ">>
                                 \o EntryAt(obs[r].received[2], gj).summary.s
                                 \o <<"\n">>)
                     /\ ~Contains(loc[r].releaseNotesSection, <<"null">>)
                     /\ ~Contains(loc[r].releaseNotesSection, <<"[", "]", "(", ")">>)

Blank(c) == c \in {" ", "\t", "\n"}
Digit(c) == c \in {"0", "1", "2", "3", "4", "5", "6", "7", "8", "9"}

\* s[lo..hi] reads ' by <names>': blanks, 'by', blanks, and names free of ':'
IsAuthorPart(s, lo, hi) ==
    \E b \in (lo + 1)..(hi - 3) :
        /\ \A j \in lo..(b - 1) : Blank(s[j])
        /\ s[b] = "b" /\ s[b + 1] = "y"
        /\ Blank(s[b + 2])
        /\ \E w \in (b + 2)..(hi - 1) :
              /\ \A j \in (b + 2)..w : Blank(s[j])
              /\ \A j \in (w + 1)..hi : s[j] # ":"

\* The first n characters of s read '#<digits>', optionally ' by <names>',
\* then ':' and one or more blanks, and what follows does not begin with a
\* blank
IsIdPrefix(s, n) ==
    /\ n <= Len(s)
    /\ n = Len(s) \/ ~Blank(s[n + 1])
    /\ \E d \in 2..n, c \in 3..(n - 1) :
          /\ s[1] = "#"
          /\ \A j \in 2..d : Digit(s[j])
          /\ s[c] = ":"
          /\ \A j \in (c + 1)..n : Blank(s[j])
          /\ c = d + 1 \/ (c > d + 1 /\ IsAuthorPart(s, d + 1, c - 1))

\* '* [#id](link): <rest>', or '* [#id](link)' when nothing is left
StrippedLineText(nid, link, rest) ==
    LinkedIssueText(nid, link)
    \o (IF rest = <<>> THEN <<>> ELSE <<":", " ">> \o rest) \o <<"\n">>

\* The entry is rendered with its summary cut after its first n characters
RenderedStripped(section, entry, n) ==
    Contains(section,
             <<"\n">> \o StrippedLineText(entry.nid.s, entry.link.s,
                             SubSeq(entry.summary.s, n + 1, Len(entry.summary.s))))

DoubledIdText(nid) ==
    <<"#">> \o nid \o <<":", " ", "[", "#">> \o nid \o <<"]", " ">>

\* The entry's summary reads '#N: [#N] <type>: <text>' for the entry's own id N
IsConventional(entry) ==
    /\ entry.nid.def /\ entry.summary.def
    /\ Len(entry.summary.s) > Len(DoubledIdText(entry.nid.s))
    /\ Begins(entry.summary.s, DoubledIdText(entry.nid.s))

\* '<type>: <text>', what follows '#N: [#N] '
AfterDoubledId(entry) ==
    SubSeq(entry.summary.s, Len(DoubledIdText(entry.nid.s)) + 1, Len(entry.summary.s))

\* The line is '* [#N](link): <type>: <text>' and the section shows neither
\* '[#N] ' before the type nor '#N: [#N]'
RenderedWithoutDuplicate(section, entry) ==
    /\ Contains(section,
                <<"\n">> \o LinkedIssueText(entry.nid.s, entry.link.s)
                \o <<":", " ">> \o AfterDoubledId(entry) \o <<"\n">>)
    /\ ~Contains(section, <<"[", "#">> \o entry.nid.s \o <<"]", " ">>)
    /\ ~Contains(section, <<"#">> \o entry.nid.s \o <<":", " ", "[", "#">>
                          \o entry.nid.s \o <<"]">>)

\* C21: an entry with id N whose summary reads '#N: [#N] <type>: <text>' is
\* rendered as '* [#N](link): <type>: <text>': the bracketed duplicate of the
\* id is removed with the prefix, so the section shows neither '[#N] <type>:'
\* nor '#N: [#N]'.
C21_BracketedDuplicateRemoved ==
    \A r \in Runs :
        (RenderedOne(r) /\ ListsChanges(obs[r].received[2])
         /\ EverySummaryGiven(obs[r].received[2])) =>
            \A gj \in EntriesOf(obs[r].received[2]) :
                IsConventional(EntryAt(obs[r].received[2], gj)) =>
                    RenderedWithoutDuplicate(loc[r].releaseNotesSection,
                                             EntryAt(obs[r].received[2], gj))

(***************************************************************************)
(* The order of the requests                                               *)
(***************************************************************************)
TagsRequest(project) == <<"https://api.drupal-mrn.dev/project?project=">> \o project

\* The j-th GET of a run is the one its place in the order calls for: the tag
\* list of package (j+1)/2 when j is odd, the changelog of package j/2 when
\* j is even
GetInItsPlace(gets, pkgs, j) ==
    IF j % 2 = 1
    THEN gets[j] = TagsRequest(pkgs[(j + 1) \div 2].project)
    ELSE Begins(gets[j], <<"https://api.drupal-mrn.dev/changelog?project=">>
                         \o pkgs[j \div 2].project \o <<"&from=">>)

\* C22: the GETs of a run are tag list and changelog of package 1, tag list
\* and changelog of package 2, and so on: two per surviving package, each one
\* issued only when the one before it has been answered; the pull request is
\* read and updated only after the last package's changelog has been answered.
C22_PackagesOneAfterAnother ==
    \A r \in Runs : Held(r) =>
        /\ Len(obs[r].gets) <= 2 * Len(loc[r].drupalPackages)
        /\ \A j \in 1..Len(obs[r].gets) :
              GetInItsPlace(obs[r].gets, loc[r].drupalPackages, j)
        /\ Len(obs[r].received) <= Len(obs[r].gets)
        /\ Len(obs[r].gets) <= Len(obs[r].received) + 1
        /\ pc[r] \in {"awaitTags", "awaitChangelog"}
              <=> Len(obs[r].gets) = Len(obs[r].received) + 1
        /\ obs[r].prCalls # <<>> =>
              /\ Len(obs[r].gets) = 2 * Len(loc[r].drupalPackages)
              /\ Len(obs[r].received) = 2 * Len(loc[r].drupalPackages)
        /\ (pc[r] = "done" /\ Len(loc[r].drupalPackages) > 0) =>
              Len(obs[r].gets) = 2 * Len(loc[r].drupalPackages)

\* A run on two packages has made its four GETs and then read and updated the
\* pull request
C22_Witness ==
    \E r \in Runs :
        /\ pc[r] = "done"
        /\ Len(loc[r].drupalPackages) = 2
        /\ Len(obs[r].gets) = 4
        /\ obs[r].gets[3] = TagsRequest(loc[r].drupalPackages[2].project)
        /\ loc[r].drupalPackages[1].project # loc[r].drupalPackages[2].project
        /\ Len(GetCalls(r)) = 1 /\ Len(UpdateCalls(r)) = 1

(***************************************************************************)
(* C23: errors thrown inside run() become fatal signals                    *)
(***************************************************************************)
\* Run r has returned with one fatal signal, which carries `message`
FailedWith(r, message) ==
    /\ pc[r] = "done"
    /\ obs[r].failed = <<message>>

\* The credential is missing and run r has been started
ThrewForToken(r) == pc[r] # "idle" /\ ~Truthy(env.GITHUB_TOKEN)

\* The construction of the client threw in run r
ThrewForClient(r) == obs[r].client # <<>> /\ obs[r].client[1].threw

\* The k-th call of the pull-request host (1: the read, 2: the update) was
\* rejected in run r
PrCallRejected(r, k) == Len(obs[r].prHeard) >= k /\ obs[r].prHeard[k].threw

\* C23: every error thrown inside run() -- the missing credential, the
\* construction of the client, the rejected read and the rejected update of
\* the pull request -- ends the run with a fatal signal that carries the
\* error's message, the run returning to its caller; after a rejected read
\* (and after a client that could not be built) no update is issued.
C23_ErrorsBecomeFatalSignals ==
    \A r \in Runs :
        /\ pc[r] \in {"idle", "awaitTags", "awaitChangelog", "awaitPrGet",
                      "awaitPrUpdate", "done", "exited"}
        /\ ThrewForToken(r) =>
               /\ FailedWith(r, <<"GITHUB_TOKEN is required">>)
               /\ obs[r].gets = <<>> /\ obs[r].prCalls = <<>>
        /\ ThrewForClient(r) =>
               /\ FailedWith(r, obs[r].client[1].message)
               /\ obs[r].prCalls = <<>>
        /\ PrCallRejected(r, 1) =>
               /\ FailedWith(r, obs[r].prHeard[1].message)
               /\ obs[r].prCalls = <<PrGetCall>>
               /\ prWrites = <<>>
        /\ PrCallRejected(r, 2) =>
               /\ FailedWith(r, obs[r].prHeard[2].message)
               /\ prWrites = <<>>

\* The read of the pull request was rejected after the packages were rendered
C23_Witness ==
    /\ PrCallRejected(1, 1)
    /\ obs[1].failed = <<<<"Not Found">>>>
    /\ loc[1].hasReleaseNotes
    /\ Len(obs[1].gets) = 2

\* The other three errors happen too
C23_TokenCase == ThrewForToken(1)
C23_ClientCase == ThrewForClient(1) /\ Len(obs[1].gets) = 4
C23_UpdateCase == PrCallRejected(1, 2)

(***************************************************************************)
(* C24: groups and entries are rendered in the order of the response       *)
(***************************************************************************)
CategoryMark == <<"#", "#", "#", "#", " ">>
IsCategoryLine(line) == Begins(line, CategoryMark)
IsListLine(line) == Begins(line, <<"*", " ">>)

\* The positions of a text at which a line starts
LineStarts(s) == {i \in 1..Len(s) : i = 1 \/ s[i - 1] = "\n"}

\* The line that starts at position i, without its line end
LineAt(s, i) ==
    IF \E j \in i..Len(s) : s[j] = "\n"
    THEN SubSeq(s, i, (CHOOSE j \in i..Len(s) :
                          /\ s[j] = "\n"
                          /\ \A k \in i..(j - 1) : s[k] # "\n") - 1)
    ELSE SubSeq(s, i, Len(s))

\* Where the change records of a text start (past its end, if it has none)
RecordsStart(s) ==
    IF \E i \in LineStarts(s) : LineAt(s, i) = CategoryMark \o <<"Change Records">>
    THEN CHOOSE i \in LineStarts(s) :
            /\ LineAt(s, i) = CategoryMark \o <<"Change Records">>
            /\ \A k \in LineStarts(s) :
                   LineAt(s, k) = CategoryMark \o <<"Change Records">> => i <= k
    ELSE Len(s) + 1

\* The starts of the category headings and list lines in s from position
\* `first` up to, excluding, position `stop`
MarkedStarts(s, first, stop) ==
    {i \in LineStarts(s) : /\ first <= i /\ i < stop
                           /\ (IsCategoryLine(LineAt(s, i)) \/ IsListLine(LineAt(s, i)))}

\* The elements of a set of numbers in ascending order
Ascending(S) ==
    [k \in 1..Cardinality(S) |->
        CHOOSE x \in S : Cardinality({y \in S : y < x}) = k - 1]

\* What a line shows of its origin: a category heading shows the category,
\* a list line shows the link it opens with (up to the first ')')
Shown(line) ==
    IF IsCategoryLine(line)
    THEN [kind |-> "category",
          text |-> SubSeq(line, Len(CategoryMark) + 1, Len(line))]
    ELSE [kind |-> "entry",
          text |-> SubSeq(line, 1, CHOOSE j \in 1..Len(line) :
                                      /\ line[j] = ")"
                                      /\ \A k \in 1..(j - 1) : line[k] # ")")]

ShownAt(s, starts) == [k \in 1..Len(starts) |-> Shown(LineAt(s, starts[k]))]

\* The category headings and list lines of a rendered section, in order, that
\* precede the change records
GroupsShown(section) ==
    ShownAt(section, Ascending(MarkedStarts(section, 1, RecordsStart(section))))

\* What the groups of a response call for: per group that has entries, its
\* category (or 'Misc') and then its entries one by one
RECURSIVE EntriesDue(_, _)
EntriesDue(changes, j) ==
    IF j > Len(changes) THEN <<>>
    ELSE <<[kind |-> "entry",
            text |-> LinkedIssueText(IF changes[j].nid.def THEN changes[j].nid.s
                                     ELSE <<"null">>,
                                     changes[j].link.s)]>>
         \o EntriesDue(changes, j + 1)

RECURSIVE GroupsDue(_, _)
GroupsDue(groups, g) ==
    IF g > Len(groups) THEN <<>>
    ELSE IF ~groups[g].hasChanges \/ groups[g].changes = <<>>
    THEN GroupsDue(groups, g + 1)
    ELSE <<[kind |-> "category",
            text |-> IF groups[g].type.def /\ groups[g].type.s # <<>>
                     THEN groups[g].type.s ELSE <<"Misc">>]>>
         \o EntriesDue(groups[g].changes, 1)
         \o GroupsDue(groups, g + 1)

\* C24: in the block of a package whose answer has a non-empty change list
\* (every entry carrying a summary string), the category headings and list
\* lines are, in order: for each group of the response that has entries, one
\* heading with the group's type ('Misc' when the type is missing) followed
\* by one list line per entry in entry order; a group whose entry list is
\* empty or missing contributes neither heading nor line.
C24_GroupsRenderedInOrder ==
    \A r \in Runs :
        (RenderedOne(r) /\ ListsChanges(obs[r].received[2])
         /\ EverySummaryGiven(obs[r].received[2])) =>
            GroupsShown(loc[r].releaseNotesSection)
                = GroupsDue(obs[r].received[2].data.changes, 1)

\* Two groups were rendered, the second without a type and with two entries,
\* the first with its entries in the other order
C24_Witness ==
    \E r \in Runs :
        /\ RenderedOne(r) /\ ListsChanges(obs[r].received[2])
        /\ obs[r].received[2].data.changes
              = <<Group(Str(<<"Bug">>), <<UpdateEntry, FixEntry>>),
                  Group(Undef, <<FixEntry, UpdateEntry>>)>>
        /\ Len(GroupsShown(loc[r].releaseNotesSection)) = 6
        /\ GroupsShown(loc[r].releaseNotesSection)[4]
              = [kind |-> "category", text |-> <<"Misc">>]

\* A group without entries between two groups with entries left no trace
C24_EmptyGroupCase ==
    \E r \in Runs :
        /\ RenderedOne(r) /\ ListsChanges(obs[r].received[2])
        /\ Len(obs[r].received[2].data.changes) = 2
        /\ obs[r].received[2].data.changes[1] = NoChangesGroup(Str(<<"Task">>))
        /\ obs[r].received[2].data.changes[2].changes = <<FixEntry>>
        /\ Len(GroupsShown(loc[r].releaseNotesSection)) = 2

(***************************************************************************)
(* C25: the compare link                                                   *)
(***************************************************************************)
\* The answer holds at least one change entry
HasEntry(response) == ListsChanges(response) /\ EntriesOf(response) # {}

ShowsCompare(block) == Contains(block, <<"(", "[", "compare", "]", "(">>)

\* The subheading of the block is the release-notes link and nothing else
LinkAlone(block, pkg, toTag) ==
    Begins(block, HeadingText(pkg) \o SubheadingText(pkg, toTag) \o <<"\n">>)

CompareIffEntry(block, pkg, toTag, response) ==
    /\ ShowsCompare(block) <=> HasEntry(response)
    /\ (Answered(response) /\ ~HasEntry(response)) => LinkAlone(block, pkg, toTag)

\* C25: the block of a package shows the '(compare)' link exactly when the
\* package's answer holds at least one change entry; the block of an answer
\* with no change to show carries the release-notes link alone.
C25_CompareIffChangeEntry ==
    \A r \in Runs : RenderedOne(r) =>
        CompareIffEntry(Blocks(loc[r].releaseNotesSection),
                        loc[r].drupalPackages[1],
                        TagFor(loc[r].drupalPackages[1].to,
                               TagsHeard(obs[r].received[1])),
                        obs[r].received[2])

(***************************************************************************)
(* C26: change records                                                     *)
(***************************************************************************)
RecordsMark == CategoryMark \o <<"Change Records">>

\* The answer carries change records
CarriesRecords(response) ==
    /\ Answered(response)
    /\ ~response.data.isNull
    /\ response.data.hasChangeRecords
    /\ response.data.changeRecords # <<>>

HasRecordsHeading(section) ==
    Contains(section, <<"\n">> \o RecordsMark \o <<"\n", "\n">>)

\* The list lines of a section from its change-records heading on
LinesAt(s, starts) == [k \in 1..Len(starts) |-> LineAt(s, starts[k])]
RecordsShown(section) ==
    LinesAt(section,
            Ascending({i \in MarkedStarts(section, RecordsStart(section),
                                          Len(section) + 1) :
                          IsListLine(LineAt(section, i))}))

\* No category heading follows the change-records heading
RecordsComeLast(section) ==
    \A i \in MarkedStarts(section, RecordsStart(section) + 1, Len(section) + 1) :
        ~IsCategoryLine(LineAt(section, i))

Given(a) == a.def /\ a.s # <<>>
TargetOf(record) == IF Given(record.url) THEN record.url ELSE record.link
TextOf(record) == IF Given(record.title) THEN record.title ELSE record.summary

\* The link lines the records call for: one per record that has a target and
\* a text
RECURSIVE RecordsDue(_, _)
RecordsDue(records, j) ==
    IF j > Len(records) THEN <<>>
    ELSE (IF Given(TargetOf(records[j])) /\ Given(TextOf(records[j]))
          THEN <<(<<"*", " ", "[">> \o TextOf(records[j]).s \o <<"]", "(">>
                  \o TargetOf(records[j]).s \o <<")">>)>>
          ELSE <<>>)
         \o RecordsDue(records, j + 1)

\* C26 as stated: whenever the answer carries change records the block has
\* the '#### Change Records' subheading after all change groups, followed by
\* exactly one link line per record.
C26_Original ==
    \A r \in Runs :
        (RenderedOne(r) /\ CarriesRecords(obs[r].received[2])) =>
            /\ HasRecordsHeading(loc[r].releaseNotesSection)
            /\ RecordsComeLast(loc[r].releaseNotesSection)
            /\ Len(RecordsShown(loc[r].releaseNotesSection))
                 = Len(obs[r].received[2].data.changeRecords)

\* C26 (amended): when the answer has a non-empty change list and carries
\* change records, the block has the '#### Change Records' subheading after
\* all change groups, followed by one link line per record that has a target
\* ('url', or else 'link') and a text ('title', or else 'summary'), in the
\* order of the records; a record lacking either yields no line, and an
\* answer without a change list shows no change records at all.
C26_RecordsAfterGroups ==
    \A r \in Runs :
        RenderedOne(r) =>
            /\ (ListsChanges(obs[r].received[2])
                /\ EverySummaryGiven(obs[r].received[2])
                /\ CarriesRecords(obs[r].received[2])) =>
                   /\ HasRecordsHeading(loc[r].releaseNotesSection)
                   /\ RecordsComeLast(loc[r].releaseNotesSection)
                   /\ RecordsShown(loc[r].releaseNotesSection)
                        = RecordsDue(obs[r].received[2].data.changeRecords, 1)
            /\ ~ListsChanges(obs[r].received[2]) =>
                   ~HasRecordsHeading(loc[r].releaseNotesSection)

\* Records under both naming conventions were rendered below two entries
C26_Witness ==
    \E r \in Runs :
        /\ RenderedOne(r)
        /\ CarriesRecords(obs[r].received[2])
        /\ ListsChanges(obs[r].received[2])
        /\ obs[r].received[2].data.changes[1].changes = <<FixEntry, UpdateEntry>>
        /\ RecordsShown(loc[r].releaseNotesSection)
             = << <<"*", " ", "[", "Record one", "]", "(",
                    "https://www.drupal.org/node/1", ")">>,
                  <<"*", " ", "[", "Record two", "]", "(",
                    "https://www.drupal.org/node/2", ")">> >>

(***************************************************************************)
(* C27: two runs at once on one pull request                               *)
(***************************************************************************)
MarkerText == <<"#", "#", " ", "Drupal Release Notes">>

\* How often the heading occurs in a description
MarkerCount(s) ==
    Cardinality({i \in 1..Len(s) :
                    /\ i + Len(MarkerText) - 1 <= Len(s)
                    /\ SubSeq(s, i, i + Len(MarkerText) - 1) = MarkerText})

\* Run r got through: it has returned without a fatal signal after it read
\* the description
GotThrough(r) ==
    /\ pc[r] = "done"
    /\ obs[r].failed = <<>>
    /\ Len(obs[r].prHeard) >= 1

\* Run r read a description with the heading and did nothing
ReadMarkerAndLeft(r) ==
    /\ MarkerCount(Text(loc[r].pr)) >= 1
    /\ obs[r].prCalls = <<PrGetCall>>

\* Run r read the original description and wrote it back followed by its
\* own section
WroteOwnSection(r) ==
    /\ loc[r].pr = prBody0
    /\ Len(obs[r].prCalls) = 2
    /\ obs[r].prCalls[2]
         = PrUpdateCall(Text(prBody0) \o loc[r].releaseNotesSection)
    /\ \E k \in 1..Len(prWrites) : prWrites[k] = obs[r].prCalls[2].body

\* The description is the original one followed by the section of the write
\* accepted last
LastWriteStands ==
    /\ prWrites # <<>>
    /\ Text(prBody) = prWrites[Len(prWrites)]
    /\ \E r \in Racers :
           /\ WroteOwnSection(r)
           /\ Text(prBody) = Text(prBody0) \o loc[r].releaseNotesSection

\* C27: two runs interleave on a pull request whose description has no
\* heading.  At every moment the description keeps the original one as its
\* prefix and holds the heading at most once; once both runs have got
\* through, it holds the heading exactly once, each run either read the
\* heading and did nothing or wrote the original description followed by its
\* own section, and the description is the write accepted last (a later
\* write replaces the earlier one).
C27_RaceKeepsOneHeading ==
    MarkerCount(Text(prBody0)) = 0 =>
        /\ Begins(Text(prBody), Text(prBody0))
        /\ MarkerCount(Text(prBody)) <= 1
        /\ (\A r \in Racers : GotThrough(r)) =>
               /\ MarkerCount(Text(prBody)) = 1
               /\ \A r \in Racers : ReadMarkerAndLeft(r) \/ WroteOwnSection(r)
               /\ \E r \in Racers : WroteOwnSection(r)
               /\ LastWriteStands

\* Both runs read the description before either wrote: both wrote, with
\* different sections, and the second write stands
C27_Witness ==
    /\ MarkerCount(Text(prBody0)) = 0
    /\ \A r \in Racers : GotThrough(r) /\ WroteOwnSection(r)
    /\ Len(prWrites) = 2
    /\ prWrites[1] # prWrites[2]
    /\ Text(prBody) = prWrites[2]
    /\ MarkerCount(Text(prBody)) = 1

\* The second run read the heading the first run had written
C27_SecondReadsMarker ==
    /\ MarkerCount(Text(prBody0)) = 0
    /\ GotThrough(1) /\ GotThrough(2)
    /\ WroteOwnSection(2) /\ ReadMarkerAndLeft(1)
    /\ Len(obs[1].gets) = 2

(***************************************************************************)
(* C28: one block per package                                              *)
(***************************************************************************)
\* C28: every section written to the pull request has as many '### ' package
\* headings as there are surviving packages -- one block per package,
\* whatever the outcomes of the packages were, an error raised part-way
\* through the rendering of an answer included.
C28_OneHeadingPerPackage ==
    \A r \in Runs : UpdateCalls(r) # <<>> =>
        Cardinality(HeadingPositions(WrittenSection(r)))
            = Len(loc[r].drupalPackages)

(***************************************************************************)
(* C29: every run terminates, within its budget of calls                   *)
(***************************************************************************)
\* What run r may have issued and signalled so far
WithinBudget(r) ==
    /\ Len(obs[r].gets) <= 2 * Len(loc[r].drupalPackages)
    /\ Len(GetCalls(r)) <= 1
    /\ Len(UpdateCalls(r)) <= 1
    /\ obs[r].prCalls \in {<<>>, <<PrGetCall>>}
          \/ (Len(obs[r].prCalls) = 2 /\ obs[r].prCalls[1] = PrGetCall
              /\ IsUpdate(obs[r].prCalls[2]))
    /\ Len(obs[r].failed) <= 1

\* Run r has returned: it issues and signals nothing more
ReturnedForGood(r) ==
    pc[r] = "done" => (pc'[r] = "done" /\ obs'[r] = obs[r] /\ prBody' = prBody)

\* C29: when every network call resolves or rejects at some time, a run that
\* was started returns; up to then it has issued at most 2n GETs for its n
\* surviving packages, at most one read and at most one update of the pull
\* request, the read before the update, and has raised at most one fatal
\* signal; after it returned it does nothing more.
C29_RunTerminatesWithinBudget ==
    /\ [](WithinBudget(1))
    /\ [][ReturnedForGood(1)]_vars
    /\ (pc[1] # "idle") ~> (pc[1] = "done")

\* A run over two packages has returned after four GETs, the read and the
\* update
C29_Witness ==
    /\ pc[1] = "done"
    /\ Len(loc[1].drupalPackages) = 2
    /\ Len(obs[1].gets) = 4
    /\ Len(obs[1].prCalls) = 2
    /\ obs[1].failed = <<>>

(***************************************************************************)
(* C30: with no version mapped, run() does what it did before the mapping  *)
(***************************************************************************)
\* The answers run r got to its tag fetches and to its changelog fetches
TagAnswers(r) ==
    [k \in 1..((Len(obs[r].received) + 1) \div 2) |-> obs[r].received[2 * k - 1]]
ChangelogsHeard(r) ==
    [k \in 1..(Len(obs[r].received) \div 2) |-> obs[r].received[2 * k]]

\* The GETs of run r to the tags endpoint and to the changelog endpoint
TagGets(r) ==
    [k \in 1..((Len(obs[r].gets) + 1) \div 2) |-> obs[r].gets[2 * k - 1]]
ChangelogGets(r) ==
    [k \in 1..(Len(obs[r].gets) \div 2) |-> obs[r].gets[2 * k]]

\* No tag list heard by run r maps a version of its package
NothingMapped(r) ==
    \A k \in 1..Len(TagAnswers(r)) :
        /\ TagFor(loc[r].drupalPackages[k].from, TagsHeard(TagAnswers(r)[k]))
             = loc[r].drupalPackages[k].from
        /\ TagFor(loc[r].drupalPackages[k].to, TagsHeard(TagAnswers(r)[k]))
             = loc[r].drupalPackages[k].to

\* A warning of fetchProjectTags
IsTagWarning(entry) ==
    /\ entry.level = "warning"
    /\ \/ Begins(entry.msg, <<"Failed to fetch project tags for ">>)
       \/ Begins(entry.msg, <<"Error fetching project tags for ">>)
NotTagWarning(entry) == ~IsTagWarning(entry)

\* What the run before the mapping does on what run r was answered
OldOf(r) ==
    OldRun(env, payload, ChangelogsHeard(r), obs[r].client, obs[r].prHeard, loc[r].pr)

SameAsOld(r, old) ==
    /\ ChangelogGets(r) = old.gets
    /\ obs[r].failed = old.failed
    /\ obs[r].prCalls = old.prCalls
    /\ SelectSeq(obs[r].log, NotTagWarning) = old.log
    /\ Len(obs[r].gets) = 2 * Len(old.gets)
    /\ \A k \in 1..Len(TagGets(r)) :
           TagGets(r)[k] = TagsRequest(loc[r].drupalPackages[k].project)

\* C30: a run that has returned, none of whose tag fetches yielded a tag list
\* that maps a version (failure, empty list, no matching tag), has issued the
\* changelog requests, raised the fatal signals and issued the pull-request
\* calls (the update body included) that the run() before version mapping
\* issues on the same environment, changelog answers and pull-request
\* answers; beyond these it has issued one tag GET per package and logged
\* the warnings of failed tag fetches, and nothing else.
C30_RefinesUnmappedRun ==
    \A r \in Runs :
        (pc[r] = "done" /\ NothingMapped(r)) => SameAsOld(r, OldOf(r))

\* Two packages, one tag fetch failed and one found no matching tag, and
\* the update was written
C30_Witness ==
    \E r \in Runs :
        /\ pc[r] = "done" /\ NothingMapped(r)
        /\ Len(loc[r].drupalPackages) = 2
        /\ TagFetchFailed(TagAnswers(r)[1])
        /\ TagsHeard(TagAnswers(r)[2]) # <<>>
        /\ Len(obs[r].prCalls) = 2
        /\ obs[r].prCalls = OldOf(r).prCalls
        /\ ListsChanges(ChangelogsHeard(r)[2])

====
